---- MODULE Spec2Model ----
(***************************************************************************)
(* ImageFlow gallery (src/unnamed/part_001, second variant, lines 951 on): *)
(* the bounded LRU cache FastImageCache, the masonry layout                 *)
(* calculate_layout with its aspect-ratio memo, and the thumbnail pipeline  *)
(* (render pass, task queue, workers, result drain).                        *)
(*                                                                          *)
(* Four specifications share the variables; each leaves the variables of    *)
(* the other components unchanged:                                          *)
(*   SpecCache    one FastImageCache instance driven by get and put         *)
(*   SpecCacheLRU the same, observing the recency of the stored keys        *)
(*   SpecLayout   calculate_layout applied to drawn inputs                  *)
(*   SpecPipeline render passes, queue, workers and drain                   *)
(***************************************************************************)
EXTENDS Integers, Sequences, FiniteSets, TLC

(***************************************************************************)
(* Bounds of the model.                                                    *)
(***************************************************************************)
\* keys offered to the cache under SpecCache are 1..NumKeys
NumKeys == 3
\* the configured maximum of the cache under SpecCache is drawn from 1..MaxCap
MaxCap == 2

\* the catalogs drawn under SpecLayout hold 0..NumImages images
NumImages == 4

\* SpecPipeline: the folder loaded holds 1..PipeImages images
PipeImages == 2
\* SpecUniform lays out up to GridImages images of one aspect ratio
GridImages == 12
\* SpecGallery: the folder holds GalleryImages images
GalleryImages == 3
\* SpecPipeline: thumbnail_worker threads started (the program starts 3)
NumWorkers == 2
\* SpecPipeline: maxsize of self.thumb_queue (the program's is 100)
QueueMax == 2
\* SpecPipeline: results waiting in self.result_queue (unbounded in the
\* program); a worker about to publish waits while it holds this many
MaxResults == 2
\* SpecPipeline: the scroll positions are the fractions 0/ScrollDen ..
\* (ScrollDen-1)/ScrollDen of the content height
ScrollDen == 2
\* SpecZoom: the pan offsets stay within -MaxPan..MaxPan
MaxPan == 1
\* SpecShutdown: at most NumPreloads _preload_single threads run at a time
NumPreloads == 2
\* SpecPreload: the folder holds PreloadImages images
\* the images of the largest folder of SpecModes
ModeImages == 3
\* SpecLoad: select_folder is called at most MaxLoads times
MaxLoads == 2

PreloadImages == 4
\* SpecPreload: at most PreloadThreads _preload_single threads run at a time
PreloadThreads == 4
\* SpecSettle: the folder loaded holds SettleImages images
SettleImages == 3
\* SpecDrain: up to DrainMax results wait for check_results
DrainMax == 12
\* SpecSingle: the folder holds SingleImages images
SingleImages == 2
\* SpecSingle: zoom in is followed up to this level (in hundredths)
SingleZoomCap == 150
\* SpecSingle: the calls since a timer's callback last ran are counted up to
\* BurstCap
BurstCap == 2

Keys == 1..NumKeys

(***************************************************************************)
(* Constants of the program.                                               *)
(***************************************************************************)
\* self.gap
Gap == 4
\* calculate_layout: col_w = max(50, col_w)
MinColWidth == 50
\* calculate_layout: cols = self.num_columns if self.num_columns > 0 else 4
DefaultColumns == 4
\* the column radio buttons: for i in [3, 4, 5, 6]
ColumnChoices == {3, 4, 5, 6}
\* FastImageCache(max_size=400), the thumbnail cache
ThumbCacheSize == 400
\* self.img_cache = FastImageCache(max_size=30)
ImgCacheSize == 30
\* update_visible_thumbs: visible_top -= 300
Overscan == 300
\* update_visible_thumbs: visible_bottom = visible_top + canvas_h + 600
OverscanBoth == 600
\* check_results: while count < 10
DrainLimit == 10
\* on_close: for _ in range(3): self.thumb_queue.put(None, block=False)
Sentinels == 3
\* self.zoom_level = 1.0, in hundredths
ZoomReset == 100
\* zoom_in_fn / zoom_in: min(5.0, ...), in hundredths
ZoomMax == 500
\* zoom_out_fn of part_001: max(0.25, ...), in hundredths
ZoomMinPart == 25
\* zoom_out of Gallery.pyw: max(0.1, ...), in hundredths
ZoomMinGallery == 10
\* the 0.25 step of zoom in and zoom out, in hundredths
ZoomStep == 25

\* Python's None: what get returns for a missing key, and a value a caller of
\* the generic cache may store
None == "None"
\* decoded images, what the gallery stores in its caches: a thumbnail
\* resampled with LANCZOS or with BILINEAR.  The position of an entry in the
\* OrderedDict does not depend on its value, so SpecCacheLRU offers put the
\* images only
Images == {"lanczos", "bilinear"}
\* values offered to put under SpecCache: None and the images
Values == {None} \cup Images

Truthy(v) == v # None

(***************************************************************************)
(* FastImageCache.  self.cache is an OrderedDict: a sequence of            *)
(* [key, val] entries, oldest first.  Every method body runs under         *)
(* self.lock, so one call is one atomic step.                              *)
(***************************************************************************)
CacheKeys(c) == {c[i].key : i \in 1..Len(c)}

IndexOf(c, k) == CHOOSE i \in 1..Len(c) : c[i].key = k

ValueOf(c, k) == c[IndexOf(c, k)].val

Without(c, k) == SelectSeq(c, LAMBDA e : e.key # k)

\* OrderedDict.move_to_end(key)
MoveToEnd(c, k) == Append(Without(c, k), c[IndexOf(c, k)])

\* OrderedDict.__setitem__: an existing key keeps its position, a new key is
\* appended
SetItem(c, k, v) ==
  IF k \in CacheKeys(c)
    THEN [c EXCEPT ![IndexOf(c, k)].val = v]
    ELSE Append(c, [key |-> k, val |-> v])

\* OrderedDict.popitem(last=False)
PopFirst(c) == Tail(c)

\* mutant of GetCache: a hit does not move the key to the end
GetCacheNoPromote(c, k) == c

\* FastImageCache.get, the cache after the call
GetCache(c, k) == IF k \in CacheKeys(c) THEN MoveToEnd(c, k) ELSE c

\* mutant of GetResult: a hit returns None
GetResultNone(c, k) == None

\* FastImageCache.get, the value returned
GetResult(c, k) == IF k \in CacheKeys(c) THEN ValueOf(c, k) ELSE None

\* mutant of NeedsEvict: evicts as soon as the cache is full
NeedsEvictAtFull(c, m) == Len(c) >= m

\* mutant of NeedsEvict: the size check allows one entry too many
NeedsEvictLate(c, m) == Len(c) > m + 1

\* FastImageCache.put, the size check after the assignment
NeedsEvict(c, m) == Len(c) > m

\* mutant of PutCache: makes room before the assignment, whether or not the
\* key is already stored
PutCacheEvictFirst(c, m, k, v) ==
  IF Len(c) >= m THEN SetItem(PopFirst(c), k, v) ELSE SetItem(c, k, v)

\* FastImageCache.put, the cache after the call
PutCache(c, m, k, v) ==
  LET c1 == SetItem(c, k, v)
  IN  IF NeedsEvict(c1, m) THEN PopFirst(c1) ELSE c1

\* ghost: the set of keys that put(k, .) removes (empty, or one key)
PutEvicts(c, m, k) ==
  (CacheKeys(c) \cup {k}) \ CacheKeys(PutCache(c, m, k, None))

VARIABLES
  cache,        \* SpecCache: self.cache of the instance
  max_size,     \* SpecCache: self.max_size of the instance
  accessOrder,  \* ghost: the stored keys, least recently accessed first
  putKeys,      \* ghost: every key put so far
  distinctPuts, \* ghost: no put so far was of a key put before
  lastOp,       \* ghost: the last call, its arguments and its outcome
  lastEvict,    \* ghost: the last eviction: key, the set holding the key
                \*        removed (empty before the first eviction); lru, the
                \*        set holding the key that was least recently accessed
                \*        then; promoted, whether the key removed was in promoted
  promoted,     \* ghost: the stored keys that a get has hit while other
                \*        entries were stored
  pending,      \* ghost: per key K, the keys stored at K's last hit that were
                \*        neither evicted nor accessed since
  hitRun        \* ghost: key, the set holding the last hit key (empty when
                \*        another call came in between); n, the number of
                \*        never-stored keys inserted right after the hit

cacheVars == <<cache, max_size, accessOrder, putKeys, distinctPuts, lastOp,
               lastEvict, promoted, pending, hitRun>>

VARIABLES
  file_ratio,      \* the image files on disk: path -> <<width, height>>
  filtered_images, \* self.filtered_images: the paths shown, in catalog order
  view_mode,       \* self.view_mode: "all" or "selected"
  num_columns,     \* self.num_columns
  canvas_width,    \* self.canvas.winfo_width()
  aspect_cache,    \* self.aspect_cache: path -> <<width, height>>
  image_positions, \* self.image_positions: a dict in insertion order, as a
                   \*   sequence of [path, x, y, w, h]
  scrollregion,    \* the canvas scrollregion: <<>> until it is configured,
                   \*   then <<0, 0, width, total_h>>
  layout_calls,    \* ghost: calculate_layout calls so far (0, 1, 2 = many)
  memo_full,       \* ghost: every image shown was memoized when the last
                   \*   call started
  same_as_prev,    \* ghost: the last call left the position map and the
                   \*   scrollregion as the call before it had
  col_heights      \* ghost: the local col_heights at the end of the last
                   \*   layout (<<>> before the first)

layoutVars == <<file_ratio, filtered_images, view_mode, num_columns, canvas_width,
                aspect_cache, image_positions, scrollregion, layout_calls,
                memo_full, same_as_prev, col_heights>>

VARIABLES
  corrupt,       \* the paths of the folder whose Image.open raises
  canvas_h,      \* self.canvas.winfo_height()
  yview,         \* self.canvas.yview()[0], as the numerator over ScrollDen
  scroll_id,     \* self.scroll_id: TRUE while a debounced render is armed
  thumb_cache,   \* self.thumb_cache.cache, keys <<path, width>>
  thumb_queue,   \* self.thumb_queue: tasks [path, width, priority] and None
  result_queue,  \* self.result_queue: results [key, thumb, path]
  workers,       \* per thumbnail_worker thread: pc and the task in hand
  stop_workers,  \* self.stop_workers
  canvas_items,  \* what the last render pass drew: [path, kind, enqueue,
                 \*   priority], kind "image" or "placeholder", enqueue:
                 \*   queue_thumbnail was called for the item, with priority
  pass_window,   \* ghost: visible_top, visible_bottom and
                 \*   st_fraction * total_h of the last update_visible_thumbs
                 \*   pass, all times ScrollDen, the value of failed when it
                 \*   ran and the queue_thumbnail calls that were dropped
  failed         \* ghost: the paths whose decode has raised in a worker

pipeVars == <<corrupt, canvas_h, yview, scroll_id, thumb_cache, thumb_queue,
              result_queue, workers, stop_workers, canvas_items, pass_window,
              failed>>

VARIABLES
  variant,          \* SpecZoom: the file whose viewer runs, "part_001" or
                    \*   "Gallery.pyw"
  zoom_level,       \* self.zoom_level in hundredths (1.0 is 100)
  pan,              \* <<self.pan_x, self.pan_y>> (part_001),
                    \*   <<self.image_offset_x, self.image_offset_y>> (Gallery)
  single_view_mode, \* self.single_view_mode (part_001), not self.grid_mode
                    \*   (Gallery.pyw)
  last_zoom         \* ghost: the last handler and the pan it found

zoomVars == <<variant, zoom_level, pan, single_view_mode, last_zoom>>

VARIABLES
  img_cache,        \* self.img_cache.cache, keys are paths
  preloads,         \* per _preload_single thread: pc and the path it loads
  late_puts,        \* ghost: the caches ("thumb", "img") that were put to
                    \*   after on_close set stop_workers
  sentinels_dropped \* ghost: the None puts of on_close that found the queue
                    \*   full

shutdownVars == <<img_cache, preloads, late_puts, sentinels_dropped>>

VARIABLES
  selected,     \* Gallery.pyw: the images whose img['selected'] is set
  search_hits,  \* Gallery.pyw: the images whose name contains the search text
  grid_mode,    \* Gallery.pyw: self.grid_mode
  last_gallery  \* ghost: the last handler of SpecGallery and the number of
                \*   selected images shown before it

galleryVars == <<selected, search_hits, grid_mode, last_gallery>>

VARIABLES
  current_index, \* self.current_index, counted from 1
  canvas_size,   \* SpecSingle: <<canvas.winfo_width(), canvas.winfo_height()>>
  after_queue,   \* the pending root.after callbacks: [id, fn]
  after_ids,     \* self.scroll_id and self.zoom_pan_timer, 0 for None
  canvas,        \* SpecSingle: the canvas items, in stacking order
  photos,        \* self.photos: the PhotoImage references held, each
                 \*   <<width, height, path>> (0, 0 for a thumbnail)
  last_size,     \* self.last_size: <<new_w, new_h, path>>, <<>> for None
  burst,         \* ghost: per callback, the calls that armed its timer
                 \*   since it last ran (BurstCap stands for many)
  hq             \* ghost: the render_high_quality call, when it was the last
                 \*   handler to run

singleVars == <<current_index, canvas_size, after_queue, after_ids, canvas,
                photos, last_size, burst, hq>>

VARIABLES
  image_folder, \* self.image_folder, 0 before a folder is selected
  self_images,  \* self.images, the catalog in list order
  stop_loading, \* Gallery.pyw: self.stop_loading
  loaders,      \* Gallery.pyw: the _load_images_thread threads started, each
                \*   with its position, the listing it holds and its place in it
  tk_load,      \* Gallery.pyw: where the main thread is in load_images
  after_load,   \* Gallery.pyw: the pending root.after(0, _finish_loading)
                \*   callbacks, each the number of the thread that queued it
  finished      \* ghost: per thread, the runs of its _finish_loading callback

loadVars == <<image_folder, self_images, stop_loading, loaders, tk_load,
              after_load, finished>>

viewerVars == <<zoomVars, shutdownVars, galleryVars, singleVars, loadVars>>

vars == <<cacheVars, layoutVars, pipeVars, viewerVars>>

\* ghost: k becomes the most recently accessed key
Touch(order, k) == Append(SelectSeq(order, LAMBDA x : x # k), k)

\* ImageGallery.__init__, the layout state: nothing loaded, four columns
LayoutIdle ==
  /\ file_ratio = [p \in 1..NumImages |-> <<3, 2>>]
  /\ filtered_images = <<>>
  /\ view_mode = "all"
  /\ num_columns = DefaultColumns
  /\ canvas_width = 1
  /\ aspect_cache = <<>>
  /\ image_positions = <<>>
  /\ scrollregion = <<>>
  /\ layout_calls = 0
  /\ memo_full = FALSE
  /\ same_as_prev = FALSE
  /\ col_heights = <<>>

\* the None that on_close puts on the task queue; also "no task in hand"
NoTask == [kind |-> "None"]

\* ImageGallery.__init__, the pipeline state: empty caches and queues, the
\* workers started, nothing drawn
PipelineIdle ==
  /\ corrupt = {}
  /\ canvas_h = 1
  /\ yview = 0
  /\ scroll_id = FALSE
  /\ thumb_cache = <<>>
  /\ thumb_queue = <<>>
  /\ result_queue = <<>>
  /\ workers = [w \in 1..NumWorkers |-> [pc |-> "loop", task |-> NoTask]]
  /\ stop_workers = FALSE
  /\ canvas_items = <<>>
  /\ pass_window = [ran |-> FALSE, top |-> 0, bottom |-> 0, failed |-> {},
                    dropped |-> 0, scroll |-> 0]
  /\ failed = {}

\* ImageGallery.__init__: an empty full-image cache, no preload thread
PreloadIdle ==
  /\ img_cache = <<>>
  /\ preloads = [t \in 1..NumPreloads |-> [pc |-> "idle", path |-> 0]]
  /\ late_puts = {}
  /\ sentinels_dropped = 0

\* ImageGallery.__init__, the canvas and the timers: nothing drawn, nothing
\* armed
SingleIdle ==
  /\ current_index = 1
  /\ canvas_size = <<1, 1>>
  /\ after_queue = {}
  /\ after_ids = [scroll_id |-> 0, zoom_pan_timer |-> 0]
  /\ canvas = <<>>
  /\ photos = <<>>
  /\ last_size = <<>>
  /\ burst = [render |-> 0, render_high_quality |-> 0]
  /\ hq = [ran |-> FALSE, resampled |-> FALSE, target |-> <<>>,
           marker |-> <<>>, held |-> FALSE, before |-> <<>>, steps |-> <<>>]

\* Gallery.pyw before a folder is loaded: nothing selected, single view
GalleryIdle ==
  /\ selected = {}
  /\ search_hits = {}
  /\ grid_mode = FALSE
  /\ last_gallery = [op |-> "none", before |-> 0]

\* __init__: no folder, an empty catalog, no loading thread
LoadIdle ==
  /\ image_folder = 0
  /\ self_images = <<>>
  /\ stop_loading = FALSE
  /\ loaders = <<>>
  /\ tk_load = "idle"
  /\ after_load = <<>>
  /\ finished = <<>>

\* ImageGallery.__init__, the viewer state: grid shown, zoom 1.0, no pan
ViewerIdle ==
  /\ variant = "part_001"
  /\ zoom_level = ZoomReset
  /\ pan = <<0, 0>>
  /\ single_view_mode = FALSE
  /\ last_zoom = [op |-> "none", pan |-> <<0, 0>>]
  /\ PreloadIdle
  /\ GalleryIdle
  /\ SingleIdle
  /\ LoadIdle

\* the ghost variables of SpecCacheLRU and SpecCache before any call
GhostIdle ==
  /\ accessOrder = <<>>
  /\ putKeys = {}
  /\ distinctPuts = TRUE
  /\ lastOp = [op |-> "none"]
  /\ lastEvict = [key |-> {}, lru |-> {}, promoted |-> FALSE]
  /\ promoted = {}
  /\ pending = [k \in Keys |-> {}]
  /\ hitRun = [key |-> {}, n |-> 0]

\* the stand-alone cache instance of SpecCache, unused by the other
\* specifications
CacheIdle ==
  /\ cache = <<>>
  /\ max_size = 1
  /\ GhostIdle

\* FastImageCache.__init__: an empty OrderedDict and the configured maximum
CacheInit ==
  /\ cache = <<>>
  /\ max_size \in 1..MaxCap
  /\ GhostIdle
  /\ LayoutIdle
  /\ PipelineIdle
  /\ ViewerIdle

\* a thread calls get(k) on the instance
CacheGet(k) ==
  /\ cache' = GetCache(cache, k)
  /\ UNCHANGED max_size

\* a thread calls put(k, v) on the instance
CachePut(k, v) ==
  /\ cache' = PutCache(cache, max_size, k, v)
  /\ UNCHANGED max_size

\* ghost: the call get(k) and what it returned
ObserveGet(k) ==
  LET hit == k \in CacheKeys(cache)
  IN  lastOp' = [op |-> "get", key |-> k, val |-> None, present |-> hit,
                 stored |-> IF hit THEN ValueOf(cache, k) ELSE None,
                 result |-> GetResult(cache, k), evicted |-> FALSE]

\* ghost: the call put(k, v) and whether it removed an entry
ObservePut(k, v) ==
  LET hit == k \in CacheKeys(cache)
  IN  lastOp' = [op |-> "put", key |-> k, val |-> v, present |-> hit,
                 stored |-> IF hit THEN ValueOf(cache, k) ELSE None,
                 result |-> None,
                 evicted |-> PutEvicts(cache, max_size, k) # {}]

\* ghost: the recency bookkeeping of a get(k)
TrackGet(k) ==
  LET hit == k \in CacheKeys(cache)
  IN
  /\ accessOrder' = IF hit THEN Touch(accessOrder, k) ELSE accessOrder
  /\ pending' = IF hit
                  THEN [x \in Keys |-> IF x = k THEN CacheKeys(cache) \ {k}
                                                ELSE pending[x] \ {k}]
                  ELSE pending
  /\ promoted' = IF hit /\ CacheKeys(cache) # {k} THEN promoted \cup {k}
                                                   ELSE promoted
  /\ hitRun' = IF hit THEN [key |-> {k}, n |-> 0] ELSE hitRun
  /\ UNCHANGED <<putKeys, distinctPuts, lastEvict>>

\* ghost: the recency bookkeeping of a put(k, .): k is accessed by the
\* assignment, then the eviction (if any) takes place
TrackPut(k) ==
  LET ev  == PutEvicts(cache, max_size, k)
      ord == Touch(accessOrder, k)
  IN
  /\ putKeys' = putKeys \cup {k}
  /\ distinctPuts' = (distinctPuts /\ k \notin putKeys)
  /\ accessOrder' = SelectSeq(ord, LAMBDA x : x \notin ev)
  /\ lastEvict' = IF ev # {}
                    THEN [key |-> ev, lru |-> {ord[1]},
                          promoted |-> ev \subseteq promoted]
                    ELSE lastEvict
  /\ promoted' = promoted \ ev
  /\ pending' = [x \in Keys |-> IF x = k THEN pending[x] \ ev
                                         ELSE pending[x] \ ({k} \cup ev)]
  /\ hitRun' = IF hitRun.key # {} /\ k \notin putKeys
                 THEN [hitRun EXCEPT !.n = @ + 1]
                 ELSE [key |-> {}, n |-> 0]

lruGhosts == <<accessOrder, putKeys, distinctPuts, lastEvict, promoted,
               pending, hitRun>>

\* SpecCache: get and put with the calls and their results observed
Get(k) ==
  /\ CacheGet(k) /\ ObserveGet(k)
  /\ UNCHANGED <<lruGhosts, layoutVars, pipeVars, viewerVars>>

Put(k, v) ==
  /\ CachePut(k, v) /\ ObservePut(k, v)
  /\ UNCHANGED <<lruGhosts, layoutVars, pipeVars, viewerVars>>

CacheNext ==
  \/ \E k \in Keys : Get(k)
  \/ \E k \in Keys, v \in Values : Put(k, v)

SpecCache == CacheInit /\ [][CacheNext]_vars

\* SpecCacheLRU: get and put with the recency of the stored keys observed
GetLRU(k) ==
  /\ CacheGet(k) /\ TrackGet(k)
  /\ UNCHANGED <<lastOp, layoutVars, pipeVars, viewerVars>>

PutLRU(k, v) ==
  /\ CachePut(k, v) /\ TrackPut(k)
  /\ UNCHANGED <<lastOp, layoutVars, pipeVars, viewerVars>>

CacheLRUNext ==
  \/ \E k \in Keys : GetLRU(k)
  \/ \E k \in Keys, v \in Images : PutLRU(k, v)

SpecCacheLRU == CacheInit /\ [][CacheLRUNext]_vars


(***************************************************************************)
(* Masonry layout: calculate_layout and get_aspect_ratio_fast.             *)
(*                                                                         *)
(* A path is a number 1..NumImages.  An aspect ratio is a pair             *)
(* <<width, height>> of the image's pixel dimensions; the float            *)
(* img.width / img.height is kept as that fraction, and                    *)
(* int(col_w / aspect) is the integer part of col_w * height / width.      *)
(***************************************************************************)
\* the pixel dimensions <<img.width, img.height>> the image files may have:
\* landscape (3:2) and portrait (1:2); a square comes from DefaultRatio
Ratios == {<<3, 2>>, <<1, 2>>}

\* the pixel dimensions Image.open reads from the file at path
FileRatio(path) == file_ratio[path]

\* the ratio 1.0 returned when the image cannot be opened
DefaultRatio == <<1, 1>>

\* mutant of ResolveRatio: the memo is not consulted
ResolveRatioNoMemo(memo, path, failing) ==
  IF path \in failing THEN DefaultRatio ELSE FileRatio(path)

\* get_aspect_ratio_fast, the ratio returned; failing holds the paths whose
\* Image.open raises at this moment
ResolveRatio(memo, path, failing) ==
  IF path \in DOMAIN memo THEN memo[path]
  ELSE IF path \in failing THEN DefaultRatio
  ELSE FileRatio(path)

\* mutant of MemoAfter: the default ratio of a failed decode is memoized
MemoAfterFailureToo(memo, path, failing) ==
  IF path \in DOMAIN memo THEN memo
  ELSE [q \in DOMAIN memo \cup {path} |->
          IF q # path THEN memo[q]
          ELSE IF path \in failing THEN DefaultRatio ELSE FileRatio(path)]

\* get_aspect_ratio_fast, self.aspect_cache after the call: a successful
\* decode is memoized, a failure is not
MemoAfter(memo, path, failing) ==
  IF path \in DOMAIN memo \/ path \in failing
    THEN memo
    ELSE [q \in DOMAIN memo \cup {path} |->
            IF q = path THEN FileRatio(path) ELSE memo[q]]

\* mutant of LayoutColumns: the configured count whatever the view shows
LayoutColumnsConfigured(mode, count, columns) ==
  IF columns > 0 THEN columns ELSE DefaultColumns

\* the columns calculate_layout uses
LayoutColumns(mode, count, columns) ==
  LET configured == IF columns > 0 THEN columns ELSE DefaultColumns
      cols == IF mode = "selected"
                THEN IF count = 2 THEN 2
                     ELSE IF count = 3 THEN 3
                     ELSE configured
                ELSE configured
  IN  IF cols = 0 THEN 1 ELSE cols

Max2(a, b) == IF a >= b THEN a ELSE b

\* col_w = max(50, (canvas_width - gap * (cols + 1)) // cols)
ColumnWidth(width, cols) ==
  Max2(MinColWidth, (width - Gap * (cols + 1)) \div cols)

\* mutant of ShortestColumn: every image goes to the first column
AlwaysFirstColumn(heights) == 1

\* col_heights.index(min(col_heights)): the first shortest column (from 1)
ShortestColumn(heights) ==
  CHOOSE c \in 1..Len(heights) :
    /\ \A d \in 1..Len(heights) : heights[c] <= heights[d]
    /\ \A d \in 1..(c - 1) : heights[d] # heights[c]

\* img_h = int(col_w / aspect)
ImageHeight(col_w, ratio) == (col_w * ratio[2]) \div ratio[1]

\* mutant of AdvanceColumn: the image's height is not added
AdvanceColumnGapOnly(y, img_h) == y + Gap

\* mutant of AdvanceColumn: no gap below the image
AdvanceColumnNoGap(y, img_h) == y + img_h

\* col_heights[min_col] = y + img_h + gap
AdvanceColumn(y, img_h) == y + img_h + Gap

\* max(col_heights)
MaxHeight(heights) ==
  CHOOSE m \in {heights[i] : i \in 1..Len(heights)} :
    \A i \in 1..Len(heights) : m >= heights[i]

\* the loop of calculate_layout from image i on: the position map, the column
\* heights and the memo once every image is placed
RECURSIVE PlaceFrom(_, _, _, _, _, _, _)
PlaceFrom(i, images, col_w, heights, positions, memo, failing) ==
  IF i > Len(images)
    THEN [positions |-> positions, heights |-> heights, memo |-> memo]
    ELSE
      LET path    == images[i]
          min_col == ShortestColumn(heights)
          aspect  == ResolveRatio(memo, path, failing)
          img_h   == ImageHeight(col_w, aspect)
          x       == Gap + (min_col - 1) * (col_w + Gap)
          y       == heights[min_col]
          entry   == [path |-> path, x |-> x, y |-> y, w |-> col_w,
                      h |-> img_h]
      IN  PlaceFrom(i + 1, images, col_w,
                    [heights EXCEPT ![min_col] = AdvanceColumn(entry.y, entry.h)],
                    Append(positions, entry),
                    MemoAfter(memo, path, failing), failing)

\* calculate_layout past the width check: the position map, the total height
\* and the memo it leaves
Layout(images, mode, columns, width, memo, failing) ==
  LET cols  == LayoutColumns(mode, Len(images), columns)
      col_w == ColumnWidth(width, cols)
      Total(placed) == [positions |-> placed.positions,
                        total_h   |-> MaxHeight(placed.heights) + Gap,
                        memo      |-> placed.memo,
                        heights   |-> placed.heights]
  IN  Total(PlaceFrom(1, images, col_w, [c \in 1..cols |-> Gap], <<>>,
                      memo, failing))

PathsOf(images) == {images[i] : i \in 1..Len(images)}

\* self.calculate_layout(); failing holds the images whose decode raises
\* during this call.  With a canvas not yet mapped (width <= 1) the call only
\* re-arms itself through root.after(50, ...).
CalculateLayout(failing) ==
  /\ IF canvas_width <= 1
       THEN UNCHANGED <<image_positions, scrollregion, aspect_cache,
                        col_heights>>
       ELSE \E out \in {Layout(filtered_images, view_mode, num_columns,
                               canvas_width, aspect_cache, failing)} :
              /\ image_positions' = out.positions
              /\ scrollregion' = <<0, 0, canvas_width, out.total_h>>
              /\ aspect_cache' = out.memo
              /\ col_heights' = out.heights
  /\ layout_calls' = IF layout_calls < 2 THEN layout_calls + 1 ELSE 2
  /\ memo_full' = (PathsOf(filtered_images) \subseteq DOMAIN aspect_cache)
  /\ same_as_prev' = (image_positions' = image_positions
                       /\ scrollregion' = scrollregion)
  /\ UNCHANGED <<file_ratio, filtered_images, view_mode, num_columns,
                 canvas_width>>

\* SpecLayout: the inputs of calculate_layout are drawn; the catalog shown is
\* the first n images; the canvas is unmapped (width 1) or 300 wide, where
\* six columns fall below MinColWidth and three, four or five do not
CanvasWidths == {1, 300}

LayoutInit ==
  /\ \E n \in 0..NumImages :
       /\ filtered_images = [i \in 1..n |-> i]
       /\ file_ratio \in [1..NumImages -> Ratios]
       /\ \A p \in (n + 1)..NumImages : file_ratio[p] = <<3, 2>>
  /\ view_mode \in {"all", "selected"}
  /\ num_columns \in ColumnChoices
  /\ canvas_width \in CanvasWidths
  /\ aspect_cache = <<>>
  /\ image_positions = <<>>
  /\ scrollregion = <<>>
  /\ layout_calls = 0
  /\ memo_full = FALSE
  /\ same_as_prev = FALSE
  /\ col_heights = <<>>
  /\ CacheIdle
  /\ PipelineIdle
  /\ ViewerIdle

LayoutNext ==
  \E failing \in SUBSET PathsOf(filtered_images) :
    CalculateLayout(failing) /\ UNCHANGED <<cacheVars, pipeVars, viewerVars>>

SpecLayout == LayoutInit /\ [][LayoutNext]_vars

\* SpecUniform: a catalog of up to GridImages images that all have the same
\* pixel dimensions; Image.open works for all of them or for none
UniformRatios == {<<1, 1>>, <<3, 2>>, <<1, 2>>}

\* the canvas widths of SpecUniform: unmapped, and widths whose column width
\* is above and at MinColWidth
UniformWidths == {1, 240, 301, 302, 640}

UniformInit ==
  /\ \E n \in 0..GridImages : filtered_images = [i \in 1..n |-> i]
  /\ \E r \in UniformRatios : file_ratio = [p \in 1..GridImages |-> r]
  /\ view_mode \in {"all", "selected"}
  /\ num_columns \in ColumnChoices
  /\ canvas_width \in UniformWidths
  /\ aspect_cache = <<>>
  /\ image_positions = <<>>
  /\ scrollregion = <<>>
  /\ layout_calls = 0
  /\ memo_full = FALSE
  /\ same_as_prev = FALSE
  /\ col_heights = <<>>
  /\ CacheIdle
  /\ PipelineIdle
  /\ ViewerIdle

UniformNext ==
  \E failing \in {{}, PathsOf(filtered_images)} :
    CalculateLayout(failing) /\ UNCHANGED <<cacheVars, pipeVars, viewerVars>>

SpecUniform == UniformInit /\ [][UniformNext]_vars


(***************************************************************************)
(* Thumbnail pipeline: render, update_visible_thumbs, queue_thumbnail,     *)
(* thumbnail_worker, check_results, on_close.  SpecPipeline keeps the      *)
(* gallery in grid view (grid_mode, not single_view_mode), view mode       *)
(* "all", four columns, and loads one folder.  A handler of the Tk thread  *)
(* is one step; a worker thread moves between its blocking calls.          *)
(***************************************************************************)
\* key = f"{path}_{width}"
ThumbKey(path, width) == <<path, width>>

\* a task tuple (path, width, priority)
Task(path, width, priority) ==
  [kind |-> "task", path |-> path, width |-> width, priority |-> priority]

\* mutant of QueueThumbnail: the put succeeds on a full queue too
QueueThumbnailUnbounded(queue, task) == Append(queue, task)

\* queue_thumbnail: put_nowait, the task is dropped when the queue is full
QueueThumbnail(queue, task) ==
  IF Len(queue) < QueueMax THEN Append(queue, task) ELSE queue

\* update_visible_thumbs: total_h read back from the scrollregion
TotalHeight(region, height) == IF region = <<>> THEN height ELSE region[4]

\* update_visible_thumbs: visible_top and visible_bottom, both times ScrollDen
\* (st_fraction = view / ScrollDen)
VisibleTop(view, total_h) == view * total_h - Overscan * ScrollDen

VisibleBottom(view, total_h, height) ==
  view * total_h + (height + OverscanBoth) * ScrollDen

\* mutant of Culled: nothing is skipped
CulledNever(pos, view, total_h, height) == FALSE

\* update_visible_thumbs: if y + h < visible_top or y > visible_bottom
Culled(pos, view, total_h, height) ==
  \/ (pos.y + pos.h) * ScrollDen < VisibleTop(view, total_h)
  \/ pos.y * ScrollDen > VisibleBottom(view, total_h, height)

\* update_visible_thumbs:
\* 10 if (visible_top + 300) <= y <= (visible_bottom - 300) else 5
Priority(pos, view, total_h, height) ==
  IF /\ VisibleTop(view, total_h) + Overscan * ScrollDen <= pos.y * ScrollDen
     /\ pos.y * ScrollDen
          <= VisibleBottom(view, total_h, height) - Overscan * ScrollDen
    THEN 10 ELSE 5

\* the loop of update_visible_thumbs from entry i of the position map on:
\* the thumbnail cache (get promotes), the task queue and the canvas items
\* once every entry is handled
RECURSIVE VisibleFrom(_, _, _, _, _, _, _, _)
VisibleFrom(i, positions, view, total_h, height, tcache, queue, items) ==
  IF i > Len(positions)
    THEN [tcache |-> tcache, queue |-> queue, items |-> items]
    ELSE
      LET pos == positions[i]
          key == ThumbKey(pos.path, pos.w)
      IN
      IF Culled(pos, view, total_h, height)
        THEN VisibleFrom(i + 1, positions, view, total_h, height, tcache,
                         queue, items)
      ELSE IF Truthy(GetResult(tcache, key))
        THEN VisibleFrom(i + 1, positions, view, total_h, height,
                         GetCache(tcache, key), queue,
                         Append(items, [path |-> pos.path, kind |-> "image",
                                        enqueue |-> FALSE, priority |-> 0]))
      ELSE VisibleFrom(i + 1, positions, view, total_h, height,
                       GetCache(tcache, key),
                       QueueThumbnail(queue,
                         Task(pos.path, pos.w,
                              Priority(pos, view, total_h, height))),
                       Append(items,
                              [path |-> pos.path, kind |-> "placeholder",
                               enqueue |-> TRUE,
                               priority |->
                                 Priority(pos, view, total_h, height)]))

\* ghost: the window a pass computes from the scroll fraction, the total
\* height and the canvas height
PassWindow(view, total_h, height) ==
  [ran |-> TRUE, top |-> VisibleTop(view, total_h),
   bottom |-> VisibleBottom(view, total_h, height), failed |-> failed,
   dropped |-> 0, scroll |-> view * total_h]

\* ghost: the queue_thumbnail calls of a pass that left the queue as it was
\* (queue is the task queue before the pass)
Dropped(queue, pass) ==
  Cardinality({i \in 1..Len(pass.items) : pass.items[i].enqueue})
    - (Len(pass.queue) - Len(queue))

\* update_visible_thumbs on the given position map and scrollregion
UpdateVisibleThumbs(positions, region, tcache, queue) ==
  VisibleFrom(1, positions, yview, TotalHeight(region, canvas_h), canvas_h,
              tcache, queue, <<>>)

\* render() in grid view: clear, lay out, draw what is visible
RenderGrid ==
  IF filtered_images = <<>>
    THEN /\ image_positions' = <<>>
         /\ scrollregion' = <<0, 0, canvas_width, canvas_h>>
         /\ canvas_items' = <<>>
         /\ UNCHANGED <<aspect_cache, thumb_cache, thumb_queue, col_heights,
                        pass_window>>
    ELSE \E out \in {Layout(filtered_images, view_mode, num_columns,
                            canvas_width, aspect_cache,
                            corrupt \cap PathsOf(filtered_images))} :
         \E pass \in {UpdateVisibleThumbs(out.positions,
                                          <<0, 0, canvas_width, out.total_h>>,
                                          thumb_cache, thumb_queue)} :
           /\ image_positions' = out.positions
           /\ scrollregion' = <<0, 0, canvas_width, out.total_h>>
           /\ aspect_cache' = out.memo
           /\ col_heights' = out.heights
           /\ thumb_cache' = pass.tcache
           /\ thumb_queue' = pass.queue
           /\ canvas_items' = pass.items
           /\ pass_window' =
                [PassWindow(yview, out.total_h, canvas_h)
                   EXCEPT !.dropped = Dropped(thumb_queue, pass)]

\* the mapped canvas of SpecPipeline is 300 x 200
PipeCanvas == [width |-> 300, height |-> 200]

\* the image files of the folder SpecPipeline loads: the first is a tall
\* strip (1:20) that makes the content scroll, the others are 3:2
PipeRatio(path) == IF path = 1 THEN <<1, 20>> ELSE <<3, 2>>

\* select_folder -> load_images: scan the folder (it holds n images), then
\* update_view -> render
LoadImages(n) ==
  /\ filtered_images = <<>>
  /\ ~stop_workers
  /\ filtered_images' = [i \in 1..n |-> i]
  /\ canvas_width' = PipeCanvas.width
  /\ canvas_h' = PipeCanvas.height
  /\ \E out \in {Layout([i \in 1..n |-> i], view_mode, num_columns,
                        PipeCanvas.width, <<>>, corrupt \cap 1..n)} :
     \E pass \in {VisibleFrom(1, out.positions, yview, out.total_h,
                              PipeCanvas.height, thumb_cache, thumb_queue,
                              <<>>)} :
       /\ image_positions' = out.positions
       /\ scrollregion' = <<0, 0, PipeCanvas.width, out.total_h>>
       /\ aspect_cache' = out.memo
       /\ col_heights' = out.heights
       /\ thumb_cache' = pass.tcache
       /\ thumb_queue' = pass.queue
       /\ canvas_items' = pass.items
       /\ pass_window' =
            [PassWindow(yview, out.total_h, PipeCanvas.height)
               EXCEPT !.dropped = Dropped(thumb_queue, pass)]
  /\ UNCHANGED <<file_ratio, view_mode, num_columns, layout_calls, memo_full,
                 same_as_prev, corrupt, yview, scroll_id, result_queue,
                 workers, stop_workers, failed>>

\* on_scroll: the canvas moves to another fraction, schedule_render re-arms
\* the debounced render
OnScroll(view) ==
  /\ ~stop_workers
  /\ filtered_images # <<>>
  /\ yview' = view
  /\ scroll_id' = TRUE
  /\ UNCHANGED <<layoutVars, corrupt, canvas_h, thumb_cache, thumb_queue,
                 result_queue, workers, stop_workers, canvas_items,
                 pass_window, failed>>

\* the debounced render fires: self.render()
Render ==
  /\ ~stop_workers
  /\ scroll_id
  /\ scroll_id' = FALSE
  /\ RenderGrid
  /\ UNCHANGED <<file_ratio, filtered_images, view_mode, num_columns,
                 canvas_width, layout_calls, memo_full, same_as_prev, corrupt,
                 canvas_h, yview, result_queue, workers, stop_workers,
                 failed>>

\* mutant of ContinueLoop: the stop flag is not looked at
ContinueLoopAlways == TRUE

\* thumbnail_worker: while not self.stop_workers
ContinueLoop == ~stop_workers

\* thumbnail_worker: the loop condition is evaluated
WorkerLoop(w) ==
  /\ workers[w].pc = "loop"
  /\ workers' = [workers EXCEPT ![w].pc =
                   IF ContinueLoop THEN "waiting" ELSE "exited"]
  /\ UNCHANGED <<layoutVars, corrupt, canvas_h, yview, scroll_id, thumb_cache,
                 thumb_queue, result_queue, stop_workers, canvas_items,
                 pass_window, failed>>

\* thumbnail_worker: task = self.thumb_queue.get(timeout=0.5) returns a task
\* or the None of on_close
WorkerTake(w) ==
  /\ workers[w].pc = "waiting"
  /\ thumb_queue # <<>>
  /\ thumb_queue' = Tail(thumb_queue)
  /\ workers' = [workers EXCEPT ![w] =
                   IF Head(thumb_queue) = NoTask
                     THEN [pc |-> "exited", task |-> NoTask]
                     ELSE [pc |-> "check", task |-> Head(thumb_queue)]]
  /\ UNCHANGED <<layoutVars, corrupt, canvas_h, yview, scroll_id, thumb_cache,
                 result_queue, stop_workers, canvas_items,
                 pass_window, failed>>

\* thumbnail_worker: the get times out on an empty queue (queue.Empty)
WorkerTimeout(w) ==
  /\ workers[w].pc = "waiting"
  /\ thumb_queue = <<>>
  /\ workers' = [workers EXCEPT ![w].pc = "loop"]
  /\ UNCHANGED <<layoutVars, corrupt, canvas_h, yview, scroll_id, thumb_cache,
                 thumb_queue, result_queue, stop_workers, canvas_items,
                 pass_window, failed>>

\* mutant of CachedAtCheck: the worker never finds the key
CachedNever(tcache, key) == FALSE

\* thumbnail_worker: the test of if self.thumb_cache.get(key)
CachedAtCheck(tcache, key) == Truthy(GetResult(tcache, key))

\* thumbnail_worker: if self.thumb_cache.get(key): continue
WorkerCheck(w) ==
  LET task == workers[w].task
      key  == ThumbKey(task.path, task.width)
  IN
  /\ workers[w].pc = "check"
  /\ thumb_cache' = GetCache(thumb_cache, key)
  /\ workers' = [workers EXCEPT ![w] =
                   IF CachedAtCheck(thumb_cache, key)
                     THEN [pc |-> "loop", task |-> NoTask]
                     ELSE [pc |-> "decode", task |-> task]]
  /\ UNCHANGED <<layoutVars, corrupt, canvas_h, yview, scroll_id, thumb_queue,
                 result_queue, stop_workers, canvas_items,
                 pass_window, failed>>

\* thumbnail_worker: resample = LANCZOS if priority > 5 else BILINEAR
Resample(priority) == IF priority > 5 THEN "lanczos" ELSE "bilinear"

\* mutant of Decodes: every file opens
DecodesAlways(path) == TRUE

\* thumbnail_worker: with Image.open(path) as img succeeds
Decodes(path) == path \notin corrupt

\* thumbnail_worker: open, resize and publish the result; an exception is
\* swallowed.  result_queue is unbounded: MaxResults caps it only while the
\* Tk thread can still enqueue tasks
WorkerDecode(w) ==
  LET task == workers[w].task
  IN
  /\ workers[w].pc = "decode"
  /\ \/ ~Decodes(task.path)
     \/ Len(result_queue) < MaxResults
     \/ stop_workers
  /\ failed' = IF Decodes(task.path) THEN failed ELSE failed \cup {task.path}
  /\ result_queue' =
       IF ~Decodes(task.path)
         THEN result_queue
         ELSE Append(result_queue,
                     [key |-> ThumbKey(task.path, task.width),
                      thumb |-> Resample(task.priority),
                      path |-> task.path])
  /\ workers' = [workers EXCEPT ![w] = [pc |-> "loop", task |-> NoTask]]
  /\ UNCHANGED <<layoutVars, corrupt, canvas_h, yview, scroll_id, thumb_cache,
                 thumb_queue, stop_workers, canvas_items, pass_window>>

\* mutant of Drained: one tick takes everything that waits
DrainedAll(results) == Len(results)

\* check_results: the results taken by one tick (at most DrainLimit)
Drained(results) ==
  IF Len(results) <= DrainLimit THEN Len(results) ELSE DrainLimit

\* check_results: put the first count results into the thumbnail cache
RECURSIVE PutResults(_, _, _)
PutResults(tcache, results, count) ==
  IF count = 0
    THEN tcache
    ELSE PutResults(PutCache(tcache, ThumbCacheSize, Head(results).key,
                             Head(results).thumb),
                    Tail(results), count - 1)

\* check_results, one tick of the 50 ms timer: drain, then redraw the grid
\* when something arrived and self.grid_mode (not single_view_mode) holds
CheckResults ==
  LET count == Drained(result_queue)
  IN
  /\ ~stop_workers
  /\ result_queue' = SubSeq(result_queue, count + 1, Len(result_queue))
  /\ IF count > 0 /\ single_view_mode
       THEN /\ thumb_cache' = PutResults(thumb_cache, result_queue, count)
            /\ UNCHANGED <<thumb_queue, canvas_items, pass_window>>
     ELSE IF count > 0
       THEN \E pass \in {UpdateVisibleThumbs(image_positions, scrollregion,
                           PutResults(thumb_cache, result_queue, count),
                           thumb_queue)} :
              /\ thumb_cache' = pass.tcache
              /\ thumb_queue' = pass.queue
              /\ canvas_items' = pass.items
              /\ pass_window' =
                   [PassWindow(yview, TotalHeight(scrollregion, canvas_h),
                               canvas_h)
                      EXCEPT !.dropped = Dropped(thumb_queue, pass)]
       ELSE UNCHANGED <<thumb_cache, thumb_queue, canvas_items, pass_window>>
  /\ UNCHANGED <<layoutVars, corrupt, canvas_h, yview, scroll_id, workers,
                 stop_workers, failed>>

\* on_close: the put(None, block=False) calls; each is dropped when the queue
\* is full
RECURSIVE PutSentinels(_, _)
PutSentinels(queue, count) ==
  IF count = 0 THEN queue
  ELSE PutSentinels(QueueThumbnail(queue, NoTask), count - 1)

\* on_close: stop flag, sentinels, then the Tk main loop ends
OnClose ==
  /\ ~stop_workers
  /\ stop_workers' = TRUE
  /\ thumb_queue' = PutSentinels(thumb_queue, Sentinels)
  /\ UNCHANGED <<layoutVars, corrupt, canvas_h, yview, scroll_id, thumb_cache,
                 result_queue, workers, canvas_items,
                 pass_window, failed>>

\* the gallery after __init__, and the files on disk: which of them cannot
\* be opened is drawn
PipelineInit ==
  /\ CacheIdle
  /\ ViewerIdle
  /\ file_ratio = [p \in 1..NumImages |-> PipeRatio(p)]
  /\ filtered_images = <<>>
  /\ view_mode = "all"
  /\ num_columns = DefaultColumns
  /\ canvas_width = 1
  /\ aspect_cache = <<>>
  /\ image_positions = <<>>
  /\ scrollregion = <<>>
  /\ layout_calls = 0
  /\ memo_full = FALSE
  /\ same_as_prev = FALSE
  /\ col_heights = <<>>
  /\ corrupt \in SUBSET (1..PipeImages)
  /\ canvas_h = 1
  /\ yview = 0
  /\ scroll_id = FALSE
  /\ thumb_cache = <<>>
  /\ thumb_queue = <<>>
  /\ result_queue = <<>>
  /\ workers = [w \in 1..NumWorkers |-> [pc |-> "loop", task |-> NoTask]]
  /\ stop_workers = FALSE
  /\ canvas_items = <<>>
  /\ pass_window = [ran |-> FALSE, top |-> 0, bottom |-> 0, failed |-> {},
                    dropped |-> 0, scroll |-> 0]
  /\ failed = {}

PipelineNext ==
  \/ \E n \in 1..PipeImages : LoadImages(n) /\ UNCHANGED <<cacheVars, viewerVars>>
  \/ \E view \in 0..(ScrollDen - 1) : OnScroll(view) /\ UNCHANGED <<cacheVars, viewerVars>>
  \/ Render /\ UNCHANGED <<cacheVars, viewerVars>>
  \/ CheckResults /\ UNCHANGED <<cacheVars, viewerVars>>
  \/ OnClose /\ UNCHANGED <<cacheVars, viewerVars>>
  \/ \E w \in 1..NumWorkers : WorkerLoop(w) /\ UNCHANGED <<cacheVars, viewerVars>>
  \/ \E w \in 1..NumWorkers : WorkerTake(w) /\ UNCHANGED <<cacheVars, viewerVars>>
  \/ \E w \in 1..NumWorkers : WorkerTimeout(w) /\ UNCHANGED <<cacheVars, viewerVars>>
  \/ \E w \in 1..NumWorkers : WorkerCheck(w) /\ UNCHANGED <<cacheVars, viewerVars>>
  \/ \E w \in 1..NumWorkers : WorkerDecode(w) /\ UNCHANGED <<cacheVars, viewerVars>>

SpecPipeline == PipelineInit /\ [][PipelineNext]_vars

\* one step of thumbnail_worker thread w
WorkerStep(w) ==
  /\ \/ WorkerLoop(w)
     \/ WorkerTake(w)
     \/ WorkerTimeout(w)
     \/ WorkerCheck(w)
     \/ WorkerDecode(w)
  /\ UNCHANGED <<cacheVars, viewerVars>>

\* SpecSettle: a folder of SettleImages images that all decode is loaded and
\* the window stays open
SettleInit == PipelineInit /\ corrupt = {}

\* one tick of the 50 ms timer of check_results
TickStep == CheckResults /\ UNCHANGED <<cacheVars, viewerVars>>

\* the 30 ms timer of schedule_render fires
RenderStep == Render /\ UNCHANGED <<cacheVars, viewerVars>>

SettleNext ==
  \/ LoadImages(SettleImages) /\ UNCHANGED <<cacheVars, viewerVars>>
  \/ \E view \in 0..(ScrollDen - 1) :
       OnScroll(view) /\ UNCHANGED <<cacheVars, viewerVars>>
  \/ RenderStep
  \/ TickStep
  \/ \E w \in 1..NumWorkers : WorkerStep(w)

\* what runs without the user: check_results re-arms itself every 50 ms, a
\* scheduled render fires after 30 ms, and the operating system schedules
\* every thumbnail_worker thread that can take a step.  The first two
\* conditions are WF_vars(TickStep) and WF_vars(RenderStep) written out: a
\* tick changes the state exactly when a result waits, the render can fire
\* exactly when scroll_id is set
SpecSettle ==
  /\ SettleInit
  /\ [][SettleNext]_vars
  /\ ([]<>(result_queue = <<>>) \/ []<><<TickStep>>_vars)
  /\ ([]<>(~scroll_id) \/ []<><<RenderStep>>_vars)
  /\ \A w \in 1..NumWorkers : WF_vars(WorkerStep(w))

\* SpecDrain: check_results on a result channel that holds up to DrainMax
\* results of the workers, for the keys of two images, while nothing is laid
\* out
DrainResultSet ==
  {[key |-> ThumbKey(p, 70), thumb |-> "lanczos", path |-> p] : p \in 1..2}

DrainInit ==
  /\ CacheIdle
  /\ LayoutIdle
  /\ ViewerIdle
  /\ corrupt = {}
  /\ canvas_h = 1
  /\ yview = 0
  /\ scroll_id = FALSE
  /\ thumb_cache = <<>>
  /\ thumb_queue = <<>>
  /\ result_queue \in UNION {[1..n -> DrainResultSet] : n \in 0..DrainMax}
  /\ workers = [w \in 1..NumWorkers |-> [pc |-> "loop", task |-> NoTask]]
  /\ stop_workers = FALSE
  /\ canvas_items = <<>>
  /\ pass_window = [ran |-> FALSE, top |-> 0, bottom |-> 0, failed |-> {},
                    dropped |-> 0, scroll |-> 0]
  /\ failed = {}

DrainStep == CheckResults /\ UNCHANGED <<cacheVars, viewerVars>>

DrainNext == DrainStep

SpecDrain == DrainInit /\ [][DrainNext]_vars

(***************************************************************************)
(* Shutdown: the gallery shows a single image (grid_mode is off, so         *)
(* check_results only drains), thumbnail tasks queued by earlier grid       *)
(* passes are still being worked on, display_current_image starts          *)
(* _preload_single threads, and on_close ends the Tk thread.               *)
(***************************************************************************)
\* get_image on the Tk thread: the full-image cache after the call
GetImage(c, path) ==
  IF Truthy(GetResult(c, path)) THEN GetCache(c, path)
  ELSE IF Decodes(path) THEN PutCache(c, ImgCacheSize, path, "full")
  ELSE c

\* preload_adjacent: the paths at offsets -2, -1, 1, 2 of index i that lie
\* in the list
Adjacent(i) ==
  {j \in 1..Len(filtered_images) : j # i /\ j - i \in -2..2}

FreeSlots(pre) == {t \in DOMAIN pre : pre[t].pc = "idle"}

\* preload_adjacent: one _preload_single thread is started per path
RECURSIVE StartPreloads(_, _)
StartPreloads(pre, paths) ==
  IF paths = {} THEN pre
  ELSE LET p == CHOOSE x \in paths : \A y \in paths : x <= y
           t == CHOOSE x \in FreeSlots(pre) : \A y \in FreeSlots(pre) : x <= y
       IN  StartPreloads([pre EXCEPT ![t] = [pc |-> "check", path |-> p]],
                         paths \ {p})

\* display_current_image for the image at index i: get_image, then (when the
\* image opened) preload_adjacent
ShowImage(i) ==
  /\ ~stop_workers
  /\ single_view_mode
  /\ Cardinality(FreeSlots(preloads)) >= Cardinality(Adjacent(i))
  /\ img_cache' = GetImage(img_cache, filtered_images[i])
  /\ preloads' =
       IF Truthy(GetResult(img_cache, filtered_images[i]))
            \/ Decodes(filtered_images[i])
         THEN StartPreloads(preloads,
                            {filtered_images[j] : j \in Adjacent(i)})
         ELSE preloads
  /\ UNCHANGED <<late_puts, sentinels_dropped>>

\* mutant of PreloadSkips: the thread never finds the path in the cache
PreloadSkipsNever(c, path) == FALSE

\* _preload_single: the test of if not self.img_cache.get(path)
PreloadSkips(c, path) == Truthy(GetResult(c, path))

\* _preload_single: if not self.img_cache.get(path)
PreloadCheck(t) ==
  /\ preloads[t].pc = "check"
  /\ img_cache' = GetCache(img_cache, preloads[t].path)
  /\ preloads' = [preloads EXCEPT ![t] =
                    IF PreloadSkips(img_cache, preloads[t].path)
                      THEN [pc |-> "idle", path |-> 0]
                      ELSE [pc |-> "open", path |-> preloads[t].path]]
  /\ UNCHANGED <<late_puts, sentinels_dropped>>

\* _preload_single: Image.open and self.img_cache.put; an exception is
\* swallowed; the thread ends
PreloadOpen(t) ==
  /\ preloads[t].pc = "open"
  /\ img_cache' =
       IF Decodes(preloads[t].path)
         THEN PutCache(img_cache, ImgCacheSize, preloads[t].path, "full")
         ELSE img_cache
  /\ late_puts' =
       IF Decodes(preloads[t].path) /\ stop_workers
         THEN late_puts \cup {"img"}
         ELSE late_puts
  /\ preloads' = [preloads EXCEPT ![t] = [pc |-> "idle", path |-> 0]]
  /\ UNCHANGED sentinels_dropped

\* check_results with its puts on the thumbnail cache observed
DrainResults ==
  /\ CheckResults
  /\ late_puts' =
       IF stop_workers /\ Drained(result_queue) > 0
         THEN late_puts \cup {"thumb"}
         ELSE late_puts
  /\ UNCHANGED <<img_cache, preloads, sentinels_dropped>>

\* on_close with the sentinels that did not fit observed
CloseWindow ==
  /\ OnClose
  /\ sentinels_dropped' =
       Sentinels - (Len(PutSentinels(thumb_queue, Sentinels))
                      - Len(thumb_queue))
  /\ UNCHANGED <<img_cache, preloads, late_puts>>

\* the tasks earlier grid passes may have left in the queue
QueuedTasks ==
  {Task(p, ColumnWidth(PipeCanvas.width, DefaultColumns), 10) :
     p \in 1..PipeImages}

ShutdownInit ==
  /\ CacheIdle
  /\ file_ratio = [p \in 1..NumImages |-> PipeRatio(p)]
  /\ filtered_images = [i \in 1..PipeImages |-> i]
  /\ view_mode = "all"
  /\ num_columns = DefaultColumns
  /\ canvas_width = PipeCanvas.width
  /\ aspect_cache = <<>>
  /\ image_positions = <<>>
  /\ scrollregion = <<>>
  /\ layout_calls = 0
  /\ memo_full = FALSE
  /\ same_as_prev = FALSE
  /\ col_heights = <<>>
  /\ corrupt \in SUBSET (1..PipeImages)
  /\ canvas_h = PipeCanvas.height
  /\ yview = 0
  /\ scroll_id = FALSE
  /\ thumb_cache = <<>>
  /\ \E n \in 0..QueueMax : thumb_queue \in [1..n -> QueuedTasks]
  /\ result_queue = <<>>
  /\ workers = [w \in 1..NumWorkers |-> [pc |-> "loop", task |-> NoTask]]
  /\ stop_workers = FALSE
  /\ canvas_items = <<>>
  /\ pass_window = [ran |-> FALSE, top |-> 0, bottom |-> 0, failed |-> {},
                    dropped |-> 0, scroll |-> 0]
  /\ failed = {}
  /\ variant = "part_001"
  /\ zoom_level = ZoomReset
  /\ pan = <<0, 0>>
  /\ single_view_mode = TRUE
  /\ last_zoom = [op |-> "show", pan |-> <<0, 0>>]
  /\ PreloadIdle
  /\ GalleryIdle
  /\ SingleIdle
  /\ LoadIdle

ShutdownNext ==
  \/ \E i \in 1..PipeImages :
       ShowImage(i) /\ UNCHANGED <<cacheVars, layoutVars, pipeVars, zoomVars,
                      galleryVars, singleVars, loadVars>>
  \/ \E t \in 1..NumPreloads :
       PreloadCheck(t)
         /\ UNCHANGED <<cacheVars, layoutVars, pipeVars, zoomVars,
                      galleryVars, singleVars, loadVars>>
  \/ \E t \in 1..NumPreloads :
       PreloadOpen(t)
         /\ UNCHANGED <<cacheVars, layoutVars, pipeVars, zoomVars,
                      galleryVars, singleVars, loadVars>>
  \/ DrainResults /\ UNCHANGED <<cacheVars, zoomVars, galleryVars, singleVars, loadVars>>
  \/ CloseWindow /\ UNCHANGED <<cacheVars, zoomVars, galleryVars, singleVars, loadVars>>
  \/ \E w \in 1..NumWorkers :
       WorkerLoop(w) /\ UNCHANGED <<cacheVars, viewerVars>>
  \/ \E w \in 1..NumWorkers :
       WorkerTake(w) /\ UNCHANGED <<cacheVars, viewerVars>>
  \/ \E w \in 1..NumWorkers :
       WorkerTimeout(w) /\ UNCHANGED <<cacheVars, viewerVars>>
  \/ \E w \in 1..NumWorkers :
       WorkerCheck(w) /\ UNCHANGED <<cacheVars, viewerVars>>
  \/ \E w \in 1..NumWorkers :
       WorkerDecode(w) /\ UNCHANGED <<cacheVars, viewerVars>>

SpecShutdown == ShutdownInit /\ [][ShutdownNext]_vars

(***************************************************************************)
(* Preloading: the single view steps through a folder of PreloadImages     *)
(* images; each image shown starts _preload_single threads for its         *)
(* neighbours, which run concurrently with the Tk thread and one another.  *)
(***************************************************************************)
\* the single-view state display_current_image leaves alone but the index
singleButIndex == <<canvas_size, after_queue, after_ids, canvas, photos,
                    last_size, burst, hq>>

\* show_single_img, prev_img, next_img: self.current_index becomes i and
\* display_current_image runs
ShowAt(i) ==
  /\ current_index' = i
  /\ ShowImage(i)
  /\ UNCHANGED <<cacheVars, layoutVars, pipeVars, zoomVars, galleryVars,
                 singleButIndex, loadVars>>

PreloadInit ==
  /\ CacheIdle
  /\ file_ratio = [p \in 1..NumImages |-> <<3, 2>>]
  /\ filtered_images = [i \in 1..PreloadImages |-> i]
  /\ view_mode = "all"
  /\ num_columns = DefaultColumns
  /\ canvas_width = 1
  /\ aspect_cache = <<>>
  /\ image_positions = <<>>
  /\ scrollregion = <<>>
  /\ layout_calls = 0
  /\ memo_full = FALSE
  /\ same_as_prev = FALSE
  /\ col_heights = <<>>
  /\ corrupt \in {{}, {PreloadImages - 1}}
  /\ canvas_h = 1
  /\ yview = 0
  /\ scroll_id = FALSE
  /\ thumb_cache = <<>>
  /\ thumb_queue = <<>>
  /\ result_queue = <<>>
  /\ workers = [w \in 1..NumWorkers |-> [pc |-> "loop", task |-> NoTask]]
  /\ stop_workers = FALSE
  /\ canvas_items = <<>>
  /\ pass_window = [ran |-> FALSE, top |-> 0, bottom |-> 0, failed |-> {},
                    dropped |-> 0, scroll |-> 0]
  /\ failed = {}
  /\ variant = "part_001"
  /\ zoom_level = ZoomReset
  /\ pan = <<0, 0>>
  /\ single_view_mode = TRUE
  /\ last_zoom = [op |-> "show", pan |-> <<0, 0>>]
  /\ img_cache = <<>>
  /\ preloads = [t \in 1..PreloadThreads |-> [pc |-> "idle", path |-> 0]]
  /\ late_puts = {}
  /\ sentinels_dropped = 0
  /\ GalleryIdle
  /\ SingleIdle
  /\ LoadIdle

PreloadNext ==
  \/ \E i \in 1..PreloadImages : ShowAt(i)
  \/ \E t \in 1..PreloadThreads :
       PreloadCheck(t)
         /\ UNCHANGED <<cacheVars, layoutVars, pipeVars, zoomVars,
                        galleryVars, singleVars, loadVars>>
  \/ \E t \in 1..PreloadThreads :
       PreloadOpen(t)
         /\ UNCHANGED <<cacheVars, layoutVars, pipeVars, zoomVars,
                        galleryVars, singleVars, loadVars>>

SpecPreload == PreloadInit /\ [][PreloadNext]_vars

\* the operating system schedules every thumbnail_worker thread that can
\* take a step
SpecShutdownLive ==
  /\ ShutdownInit
  /\ [][ShutdownNext]_vars
  /\ \A w \in 1..NumWorkers : WF_vars(WorkerStep(w))

(***************************************************************************)
(* Single-image viewer: zoom, pan and navigation, in part_001              *)
(* (zoom_in_fn, zoom_out_fn, on_drag, prev_img, next_img, show_single_img, *)
(* back_to_grid) and in Gallery.pyw (zoom_in, zoom_out, on_pan_move,       *)
(* next_image, prev_image, check_grid_click, back_to_grid).                *)
(***************************************************************************)
\* the lower clamp of zoom out in each file
ZoomMin(file) == IF file = "part_001" THEN ZoomMinPart ELSE ZoomMinGallery

\* self.zoom_level = min(5.0, self.zoom_level + 0.25)
ZoomedIn(level) ==
  IF level + ZoomStep <= ZoomMax THEN level + ZoomStep ELSE ZoomMax

\* self.zoom_level = max(0.25, self.zoom_level - 0.25)  (0.1 in Gallery.pyw)
ZoomedOut(file, level) ==
  IF level - ZoomStep >= ZoomMin(file) THEN level - ZoomStep ELSE ZoomMin(file)

\* mutant of PanAfterZoomOut: the pan is kept
PanKept(level, offset) == offset

\* zoom out: if self.zoom_level <= 1.0 the pan goes back to the origin
PanAfterZoomOut(level, offset) ==
  IF level <= ZoomReset THEN <<0, 0>> ELSE offset

\* Gallery.pyw guards zoom_in and zoom_out by not self.grid_mode; the
\* functions of part_001 have no guard
ZoomEnabled == variant = "part_001" \/ single_view_mode

ZoomIn ==
  /\ ZoomEnabled
  /\ zoom_level' = ZoomedIn(zoom_level)
  /\ last_zoom' = [op |-> "in", pan |-> pan]
  /\ UNCHANGED <<variant, pan, single_view_mode>>

ZoomOut ==
  /\ ZoomEnabled
  /\ zoom_level' = ZoomedOut(variant, zoom_level)
  /\ pan' = PanAfterZoomOut(ZoomedOut(variant, zoom_level), pan)
  /\ last_zoom' = [op |-> "out", pan |-> pan]
  /\ UNCHANGED <<variant, single_view_mode>>

\* mutant of DragEnabled: the zoom level is not looked at
DragEnabledAtAnyZoom(single, level) == single

\* on_drag: if self.single_view_mode and self.zoom_level > 1.0
\* (on_pan_move: if not self.grid_mode and self.zoom_level > 1.0)
DragEnabled(single, level) == single /\ level > ZoomReset

\* on_drag / on_pan_move: the pointer moved by <<dx, dy>> since the last event
Drag(dx, dy) ==
  /\ DragEnabled(single_view_mode, zoom_level)
  /\ pan[1] + dx \in -MaxPan..MaxPan
  /\ pan[2] + dy \in -MaxPan..MaxPan
  /\ pan' = <<pan[1] + dx, pan[2] + dy>>
  /\ last_zoom' = [op |-> "drag", pan |-> pan]
  /\ UNCHANGED <<variant, zoom_level, single_view_mode>>

\* prev_img / next_img (prev_image / next_image): another image is shown
Navigate ==
  /\ single_view_mode
  /\ zoom_level' = ZoomReset
  /\ pan' = <<0, 0>>
  /\ last_zoom' = [op |-> "navigate", pan |-> pan]
  /\ UNCHANGED <<variant, single_view_mode>>

\* show_single_img / check_grid_click: a grid cell is opened
ShowSingle ==
  /\ ~single_view_mode
  /\ single_view_mode' = TRUE
  /\ zoom_level' = ZoomReset
  /\ pan' = <<0, 0>>
  /\ last_zoom' = [op |-> "show", pan |-> pan]
  /\ UNCHANGED variant

\* back_to_grid
BackToGrid ==
  /\ single_view_mode
  /\ single_view_mode' = FALSE
  /\ zoom_level' = ZoomReset
  /\ pan' = <<0, 0>>
  /\ last_zoom' = [op |-> "grid", pan |-> pan]
  /\ UNCHANGED variant

\* Gallery.pyw, refresh_filtered (a selection toggle or a search change in
\* view mode "selected"): self.grid_mode follows the number of selected
\* images shown; zoom level and offsets stay
FlipMode ==
  /\ variant = "Gallery.pyw"
  /\ single_view_mode' = ~single_view_mode
  /\ last_zoom' = [op |-> "refresh", pan |-> pan]
  /\ UNCHANGED <<variant, zoom_level, pan>>

ZoomInit ==
  /\ variant \in {"part_001", "Gallery.pyw"}
  /\ zoom_level = ZoomReset
  /\ pan = <<0, 0>>
  /\ single_view_mode = FALSE
  /\ last_zoom = [op |-> "none", pan |-> <<0, 0>>]
  /\ PreloadIdle
  /\ GalleryIdle
  /\ SingleIdle
  /\ LoadIdle
  /\ CacheIdle
  /\ LayoutIdle
  /\ PipelineIdle

ZoomNext ==
  \/ ZoomIn /\ UNCHANGED <<cacheVars, layoutVars, pipeVars, shutdownVars,
                      galleryVars, singleVars, loadVars>>
  \/ ZoomOut /\ UNCHANGED <<cacheVars, layoutVars, pipeVars, shutdownVars,
                      galleryVars, singleVars, loadVars>>
  \/ \E dx, dy \in -1..1 :
       Drag(dx, dy)
         /\ UNCHANGED <<cacheVars, layoutVars, pipeVars, shutdownVars,
                      galleryVars, singleVars, loadVars>>
  \/ Navigate /\ UNCHANGED <<cacheVars, layoutVars, pipeVars, shutdownVars,
                      galleryVars, singleVars, loadVars>>
  \/ ShowSingle /\ UNCHANGED <<cacheVars, layoutVars, pipeVars, shutdownVars,
                      galleryVars, singleVars, loadVars>>
  \/ BackToGrid /\ UNCHANGED <<cacheVars, layoutVars, pipeVars, shutdownVars,
                      galleryVars, singleVars, loadVars>>
  \/ FlipMode /\ UNCHANGED <<cacheVars, layoutVars, pipeVars, shutdownVars,
                      galleryVars, singleVars, loadVars>>

SpecZoom == ZoomInit /\ [][ZoomNext]_vars

(***************************************************************************)
(* Single view of part_001 with the Tk timer queue: schedule_render,       *)
(* debounced_display, instant_transform, render_high_quality,              *)
(* display_current_image and render.  root.after(ms, fn) adds an entry to  *)
(* after_queue, which fires once the event loop is idle; an after-id is a  *)
(* positive number and 0 stands for None.  The full-image cache and the    *)
(* preload threads are the subject of SpecShutdown: here get_image yields  *)
(* the image unless the file is in corrupt.  The grid pass is the subject  *)
(* of SpecPipeline: here it draws one item per image shown.                *)
(***************************************************************************)
\* the pixel size <<img.width, img.height>> of the files SpecSingle shows
ImageSize(path) == IF path = 1 THEN <<200, 100>> ELSE <<100, 100>>

\* the sizes <<winfo_width, winfo_height>> the canvas takes
CanvasSizes == {<<400, 300>>, <<800, 600>>}

\* scale = min(cw / iw, ch / ih) * self.zoom_level,
\* new_w = max(1, int(iw * scale)), new_h = max(1, int(ih * scale)); the
\* result is (new_w, new_h, path).  With the sizes above cw / iw and ch / ih
\* are whole numbers, so the float products are exact
TargetSize(size, path, level) ==
  LET iw == ImageSize(path)[1]
      ih == ImageSize(path)[2]
      cw == Max2(size[1], 100)
      ch == Max2(size[2], 100)
      byWidth == cw * ih <= ch * iw
      num == IF byWidth THEN cw ELSE ch
      den == IF byWidth THEN iw ELSE ih
  IN  <<Max2(1, (iw * num * level) \div (den * 100)),
        Max2(1, (ih * num * level) \div (den * 100)), path>>

\* canvas.create_image(x, y, image=photo) for a resampled full image; at is
\* the offset of the item from the canvas centre
Bitmap(target, offset) ==
  [kind |-> "bitmap", w |-> target[1], h |-> target[2], path |-> target[3],
   at |-> offset]

\* update_visible_thumbs: the item drawn for an image, a thumbnail when its
\* key is cached and a placeholder rectangle otherwise
GridItem(path, cached) ==
  [kind |-> IF path \in cached THEN "thumb" ELSE "placeholder",
   w |-> 0, h |-> 0, path |-> path, at |-> <<0, 0>>]

\* render() in grid view: the canvas items and self.photos after the pass
GridView(images, cached, marker) ==
  [canvas |-> [i \in 1..Len(images) |-> GridItem(images[i], cached)],
   photos |-> SelectSeq([i \in 1..Len(images) |-> <<0, 0, images[i]>>],
                        LAMBDA p : p[3] \in cached),
   last_size |-> marker]

\* canvas.create_image items, as opposed to rectangles
IsImageItem(item) == item.kind \in {"bitmap", "thumb"}

\* display_current_image: the canvas, self.photos and self.last_size after
\* the call (view holds them before the call)
DisplayCurrentImage(images, index, size, level, offset, view) ==
  IF images = <<>> \/ index > Len(images) THEN view
  ELSE IF ~Decodes(images[index])
    THEN [view EXCEPT !.canvas = <<>>, !.photos = <<>>]
  ELSE LET target == TargetSize(size, images[index], level)
       IN  [canvas |-> <<Bitmap(target, offset)>>, photos |-> <<target>>,
            last_size |-> target]

\* instant_transform: canvas.coords(items[0], x, y) in single view
InstantTransform(single, items, offset) ==
  IF single /\ items # <<>> THEN [items EXCEPT ![1].at = offset] ELSE items

\* mutant of SwapSteps: the old items are deleted before the new one is
\* created
SwapStepsDeleteFirst(items, new) ==
  [k \in 1..(Len(items) + 1) |->
     IF k <= Len(items) THEN SubSeq(items, k + 1, Len(items)) ELSE <<new>>]

\* render_high_quality: the canvas after create_image(new) and after each
\* canvas.delete(item) of the old items
SwapSteps(items, new) ==
  [k \in 1..(Len(items) + 1) |-> SubSeq(items, k, Len(items)) \o <<new>>]

\* ghost: render_high_quality returned before it compared sizes
NoRun ==
  [ran |-> FALSE, resampled |-> FALSE, target |-> <<>>, marker |-> <<>>,
   held |-> FALSE, before |-> <<>>, steps |-> <<>>]

\* render_high_quality: if self.photos and hasattr(self, 'last_size'):
\* if self.last_size == (new_w, new_h, path)
SameAsLast(view, target) == view.photos # <<>> /\ view.last_size = target

\* render_high_quality: view after the call; hq is the ghost record of the
\* call: the target, the marker and canvas it found, whether a photo was
\* held, whether it resampled, and the canvas after each step of the swap
RenderHighQuality(images, index, size, level, offset, single, view) ==
  IF images = <<>> \/ index > Len(images) THEN [view |-> view, hq |-> NoRun]
  ELSE IF ~Decodes(images[index]) THEN [view |-> view, hq |-> NoRun]
  ELSE
    LET target == TargetSize(size, images[index], level)
        steps  == SwapSteps(view.canvas, Bitmap(target, offset))
    IN
    IF SameAsLast(view, target)
      THEN [view |-> [view EXCEPT !.canvas =
                        InstantTransform(single, view.canvas, offset)],
            hq |-> [ran |-> TRUE, resampled |-> FALSE, target |-> target,
                    marker |-> view.last_size, held |-> view.photos # <<>>,
                    before |-> view.canvas, steps |-> <<>>]]
      ELSE [view |-> [canvas |-> steps[Len(steps)], photos |-> <<target>>,
                      last_size |-> target],
            hq |-> [ran |-> TRUE, resampled |-> TRUE, target |-> target,
                    marker |-> view.last_size, held |-> view.photos # <<>>,
                    before |-> view.canvas, steps |-> steps]]

\* root.after_cancel(id): a pending entry with this id is removed
AfterCancel(queue, id) == {t \in queue : t.id # id}

\* root.after: the id handed out.  Tk numbers its ids upwards; only that an
\* id differs from every pending one and from every id the program still
\* holds matters, so the least such number stands for it
NewId(queue, held) ==
  LET used == {t.id : t \in queue} \cup held
  IN  CHOOSE n \in 1..(Cardinality(used) + 1) :
        n \notin used /\ \A m \in 1..(n - 1) : m \in used

\* self.<handle> = self.root.after(ms, fn)
Arm(queue, ids, handle, fn) ==
  LET id == NewId(queue, {ids[h] : h \in DOMAIN ids \ {handle}})
  IN  [queue |-> queue \cup {[id |-> id, fn |-> fn]},
       ids |-> [ids EXCEPT ![handle] = id]]

\* mutant of ScheduleRender: the pending render is not cancelled
ScheduleRenderNoCancel(queue, ids) == Arm(queue, ids, "scroll_id", "render")

\* schedule_render: the after queue and the handles after the call
ScheduleRender(queue, ids) ==
  Arm(IF ids.scroll_id # 0 THEN AfterCancel(queue, ids.scroll_id) ELSE queue,
      ids, "scroll_id", "render")

\* mutant of DebouncedTimer: the pending timer is not cancelled
DebouncedTimerNoCancel(queue, ids) ==
  Arm(queue, ids, "zoom_pan_timer", "render_high_quality")

\* debounced_display: the after queue and the handles after the call
DebouncedTimer(queue, ids) ==
  Arm(IF ids.zoom_pan_timer # 0
        THEN AfterCancel(queue, ids.zoom_pan_timer) ELSE queue,
      ids, "zoom_pan_timer", "render_high_quality")

\* ghost: one more call since fn last ran (BurstCap stands for many)
Bump(b, fn) == [b EXCEPT ![fn] = IF @ < BurstCap THEN @ + 1 ELSE BurstCap]

\* the canvas, self.photos and self.last_size
View == [canvas |-> canvas, photos |-> photos, last_size |-> last_size]

SetView(v) ==
  /\ canvas' = v.canvas
  /\ photos' = v.photos
  /\ last_size' = v.last_size

\* debounced_display with the pan at offset
DebouncedDisplay(offset) ==
  /\ hq' = NoRun
  /\ \E armed \in {DebouncedTimer(after_queue, after_ids)} :
       /\ after_queue' = armed.queue
       /\ after_ids' = armed.ids
  /\ canvas' = InstantTransform(single_view_mode, canvas, offset)
  /\ burst' = Bump(burst, "render_high_quality")
  /\ UNCHANGED <<photos, last_size, current_index, canvas_size>>

\* handle_grid_click -> show_single_img: image i of the list is opened
OpenImage(i) ==
  /\ hq' = NoRun
  /\ ~single_view_mode
  /\ i \in 1..Len(filtered_images)
  /\ current_index' = i
  /\ single_view_mode' = TRUE
  /\ zoom_level' = ZoomReset
  /\ pan' = <<0, 0>>
  /\ SetView(DisplayCurrentImage(filtered_images, i, canvas_size, ZoomReset,
                                 <<0, 0>>, View))
  /\ UNCHANGED <<canvas_size, after_queue, after_ids, burst>>

\* on_wheel in single view or the + button: zoom_in_fn
WheelZoomIn ==
  /\ single_view_mode
  /\ ZoomedIn(zoom_level) <= SingleZoomCap
  /\ zoom_level' = ZoomedIn(zoom_level)
  /\ DebouncedDisplay(pan)
  /\ UNCHANGED <<pan, single_view_mode>>

\* on_wheel in single view or the - button: zoom_out_fn
WheelZoomOut ==
  /\ single_view_mode
  /\ zoom_level' = ZoomedOut("part_001", zoom_level)
  /\ pan' = PanAfterZoomOut(ZoomedOut("part_001", zoom_level), pan)
  /\ DebouncedDisplay(PanAfterZoomOut(ZoomedOut("part_001", zoom_level), pan))
  /\ UNCHANGED single_view_mode

\* on_drag: one motion sample, the pointer moved by dx
OnDrag(dx) ==
  /\ single_view_mode
  /\ zoom_level > ZoomReset
  /\ pan[1] + dx \in -MaxPan..MaxPan
  /\ pan' = <<pan[1] + dx, pan[2]>>
  /\ DebouncedDisplay(<<pan[1] + dx, pan[2]>>)
  /\ UNCHANGED <<zoom_level, single_view_mode>>

\* prev_img (d = -1) and next_img (d = 1)
StepImage(d) ==
  /\ hq' = NoRun
  /\ single_view_mode
  /\ current_index + d \in 1..Len(filtered_images)
  /\ current_index' = current_index + d
  /\ zoom_level' = ZoomReset
  /\ pan' = <<0, 0>>
  /\ SetView(DisplayCurrentImage(filtered_images, current_index + d,
                                 canvas_size, ZoomReset, <<0, 0>>, View))
  /\ UNCHANGED <<single_view_mode, canvas_size, after_queue, after_ids, burst>>

\* back_to_grid: render() draws the grid; cached are the images whose
\* thumbnail the cache holds
GridBack(cached) ==
  /\ hq' = NoRun
  /\ single_view_mode
  /\ single_view_mode' = FALSE
  /\ zoom_level' = ZoomReset
  /\ pan' = <<0, 0>>
  /\ SetView(GridView(filtered_images, cached, last_size))
  /\ UNCHANGED <<current_index, canvas_size, after_queue, after_ids, burst>>

\* check_results in grid view after a result arrived: update_visible_thumbs
GridRefresh(cached) ==
  /\ hq' = NoRun
  /\ ~single_view_mode
  /\ cached # {}
  /\ SetView(GridView(filtered_images, cached, last_size))
  /\ UNCHANGED <<zoom_level, pan, single_view_mode, current_index,
                 canvas_size, after_queue, after_ids, burst>>

\* schedule_render as the handlers below call it
ArmRender ==
  /\ \E armed \in {ScheduleRender(after_queue, after_ids)} :
       /\ after_queue' = armed.queue
       /\ after_ids' = armed.ids
  /\ burst' = Bump(burst, "render")

\* on_scroll, and on_wheel in grid view: the canvas scrolls, schedule_render
ScrollGrid ==
  /\ hq' = NoRun
  /\ ~single_view_mode
  /\ ArmRender
  /\ UNCHANGED <<zoom_level, pan, single_view_mode, current_index,
                 canvas_size, canvas, photos, last_size>>

\* <Configure>: the canvas is mapped or resized, schedule_render
Configure(size) ==
  /\ hq' = NoRun
  /\ canvas_size' = size
  /\ ArmRender
  /\ UNCHANGED <<zoom_level, pan, single_view_mode, current_index, canvas,
                 photos, last_size>>

\* the timer of schedule_render fires: render(), which is show_single ->
\* display_current_image in single view and the grid pass otherwise
FireRender ==
  /\ hq' = NoRun
  /\ \E t \in after_queue :
       /\ t.fn = "render"
       /\ after_queue' = after_queue \ {t}
  /\ burst' = [burst EXCEPT !["render"] = 0]
  /\ IF single_view_mode
       THEN SetView(DisplayCurrentImage(filtered_images, current_index,
                                        canvas_size, zoom_level, pan, View))
       ELSE \E cached \in SUBSET PathsOf(filtered_images) :
              SetView(GridView(filtered_images, cached, last_size))
  /\ UNCHANGED <<zoom_level, pan, single_view_mode, current_index,
                 canvas_size, after_ids>>

\* the timer of debounced_display fires: render_high_quality()
FireHighQuality ==
  /\ \E t \in after_queue :
       /\ t.fn = "render_high_quality"
       /\ after_queue' = after_queue \ {t}
  /\ burst' = [burst EXCEPT !["render_high_quality"] = 0]
  /\ \E out \in {RenderHighQuality(filtered_images, current_index,
                                   canvas_size, zoom_level, pan,
                                   single_view_mode, View)} :
       /\ SetView(out.view)
       /\ hq' = out.hq
  /\ UNCHANGED <<zoom_level, pan, single_view_mode, current_index,
                 canvas_size, after_ids>>

\* the gallery of part_001 with a folder of SingleImages images loaded and
\* the grid drawn before any thumbnail arrived; the last file may be one
\* that Image.open rejects
SingleInit ==
  /\ CacheIdle
  /\ PreloadIdle
  /\ GalleryIdle
  /\ file_ratio = [p \in 1..NumImages |-> <<3, 2>>]
  /\ filtered_images = [i \in 1..SingleImages |-> i]
  /\ view_mode = "all"
  /\ num_columns = DefaultColumns
  /\ canvas_width = 1
  /\ aspect_cache = <<>>
  /\ image_positions = <<>>
  /\ scrollregion = <<>>
  /\ layout_calls = 0
  /\ memo_full = FALSE
  /\ same_as_prev = FALSE
  /\ col_heights = <<>>
  /\ corrupt \in SUBSET {SingleImages}
  /\ canvas_h = 1
  /\ yview = 0
  /\ scroll_id = FALSE
  /\ thumb_cache = <<>>
  /\ thumb_queue = <<>>
  /\ result_queue = <<>>
  /\ workers = [w \in 1..NumWorkers |-> [pc |-> "loop", task |-> NoTask]]
  /\ stop_workers = FALSE
  /\ canvas_items = <<>>
  /\ pass_window = [ran |-> FALSE, top |-> 0, bottom |-> 0, failed |-> {},
                    dropped |-> 0, scroll |-> 0]
  /\ failed = {}
  /\ variant = "part_001"
  /\ zoom_level = ZoomReset
  /\ pan = <<0, 0>>
  /\ single_view_mode = FALSE
  /\ last_zoom = [op |-> "none", pan |-> <<0, 0>>]
  /\ current_index = 1
  /\ canvas_size = <<400, 300>>
  /\ after_queue = {}
  /\ after_ids = [scroll_id |-> 0, zoom_pan_timer |-> 0]
  /\ canvas = GridView([i \in 1..SingleImages |-> i], {}, <<>>).canvas
  /\ photos = <<>>
  /\ last_size = <<>>
  /\ burst = [render |-> 0, render_high_quality |-> 0]
  /\ hq = NoRun
  /\ LoadIdle

singleRest ==
  <<cacheVars, layoutVars, pipeVars, shutdownVars, galleryVars, loadVars,
    variant,
    last_zoom>>

FireRenderStep == FireRender /\ UNCHANGED singleRest

FireHighQualityStep == FireHighQuality /\ UNCHANGED singleRest

SingleNext ==
  \/ \E i \in 1..SingleImages : OpenImage(i) /\ UNCHANGED singleRest
  \/ WheelZoomIn /\ UNCHANGED singleRest
  \/ WheelZoomOut /\ UNCHANGED singleRest
  \/ \E dx \in {-1, 1} : OnDrag(dx) /\ UNCHANGED singleRest
  \/ \E d \in {-1, 1} : StepImage(d) /\ UNCHANGED singleRest
  \/ \E cached \in SUBSET (1..SingleImages) :
       GridBack(cached) /\ UNCHANGED singleRest
  \/ \E cached \in SUBSET (1..SingleImages) :
       GridRefresh(cached) /\ UNCHANGED singleRest
  \/ ScrollGrid /\ UNCHANGED singleRest
  \/ \E size \in CanvasSizes : Configure(size) /\ UNCHANGED singleRest
  \/ FireRenderStep
  \/ FireHighQualityStep

SpecSingle == SingleInit /\ [][SingleNext]_vars

\* a due timer fires once the Tk event loop is idle
SpecSingleLive ==
  /\ SingleInit
  /\ [][SingleNext]_vars
  /\ WF_vars(FireRenderStep)
  /\ WF_vars(FireHighQualityStep)

(***************************************************************************)
(* Gallery.pyw: view mode, selection, search and grid mode (update_view,   *)
(* refresh_filtered, on_tree_click, on_search_change, display_images,      *)
(* back_to_grid, check_grid_click).  An image is a number                  *)
(* 1..GalleryImages; the search text is kept as the set of images whose    *)
(* name contains it.                                                       *)
(***************************************************************************)
\* the images of set s in catalog order
InOrder(s) == SelectSeq([i \in 1..GalleryImages |-> i], LAMBDA x : x \in s)

\* self.filtered_images as update_view and refresh_filtered compute it
Filtered(mode, hits, sel) ==
  IF mode = "selected" THEN InOrder(hits \cap sel) ELSE InOrder(hits)

\* refresh_filtered: self.grid_mode after the filter is applied
RefreshGrid(preserve_grid, mode, count, grid) ==
  IF mode # "selected" THEN grid
  ELSE IF preserve_grid THEN (IF count <= 1 THEN FALSE ELSE grid)
  ELSE count > 1

\* update_view: self.grid_mode after the filter is applied
UpdateGrid(mode, count) == mode = "selected" /\ count > 1

\* display_images: self.grid_mode after the call; an empty list returns
\* before the mode is looked at
DisplayGrid(mode, count, grid) ==
  IF count = 0 THEN grid
  ELSE mode = "selected" /\ count > 1 /\ grid

\* ghost: the selected images the view shows
ShownSelected == Cardinality(PathsOf(filtered_images) \cap selected)

\* a view-mode radio button is clicked: update_view
UpdateView(mode) ==
  /\ view_mode' = mode
  /\ filtered_images' = Filtered(mode, search_hits, selected)
  /\ grid_mode' = DisplayGrid(mode, Len(filtered_images'),
                              UpdateGrid(mode, Len(filtered_images')))
  /\ last_gallery' = [op |-> "mode", before |-> ShownSelected]
  /\ UNCHANGED <<selected, search_hits>>

\* on_tree_click on the checkbox of image img: toggle, then
\* refresh_filtered(preserve_grid=True)
TreeClick(img) ==
  /\ view_mode = "selected"
  /\ img \in search_hits
  /\ selected' = IF img \in selected THEN selected \ {img}
                 ELSE selected \cup {img}
  /\ filtered_images' = Filtered(view_mode, search_hits, selected')
  /\ grid_mode' = DisplayGrid(view_mode, Len(filtered_images'),
                              RefreshGrid(TRUE, view_mode,
                                          Len(filtered_images'), grid_mode))
  /\ last_gallery' = [op |-> "click", before |-> ShownSelected]
  /\ UNCHANGED <<view_mode, search_hits>>

\* on_search_change: the search text now matches the images in hits;
\* refresh_filtered(preserve_grid=True)
SearchChange(hits) ==
  /\ search_hits' = hits
  /\ filtered_images' = Filtered(view_mode, hits, selected)
  /\ grid_mode' = DisplayGrid(view_mode, Len(filtered_images'),
                              RefreshGrid(TRUE, view_mode,
                                          Len(filtered_images'), grid_mode))
  /\ last_gallery' = [op |-> "search", before |-> ShownSelected]
  /\ UNCHANGED <<view_mode, selected>>

\* back_to_grid of Gallery.pyw
GridButton ==
  /\ view_mode = "selected"
  /\ grid_mode' = DisplayGrid(view_mode, Len(filtered_images), TRUE)
  /\ last_gallery' = [op |-> "grid", before |-> ShownSelected]
  /\ UNCHANGED <<view_mode, filtered_images, selected, search_hits>>

\* check_grid_click: a cell of the grid is opened in single view
GridClick ==
  /\ grid_mode
  /\ filtered_images # <<>>
  /\ grid_mode' = FALSE
  /\ last_gallery' = [op |-> "open", before |-> ShownSelected]
  /\ UNCHANGED <<view_mode, filtered_images, selected, search_hits>>

\* Gallery.pyw after _finish_loading: all images shown, none selected
GalleryInit ==
  /\ CacheIdle
  /\ PipelineIdle
  /\ variant = "Gallery.pyw"
  /\ zoom_level = ZoomReset
  /\ pan = <<0, 0>>
  /\ single_view_mode = TRUE
  /\ last_zoom = [op |-> "none", pan |-> <<0, 0>>]
  /\ PreloadIdle
  /\ file_ratio = [p \in 1..NumImages |-> <<3, 2>>]
  /\ filtered_images = InOrder(1..GalleryImages)
  /\ view_mode = "all"
  /\ num_columns = DefaultColumns
  /\ canvas_width = 1
  /\ aspect_cache = <<>>
  /\ image_positions = <<>>
  /\ scrollregion = <<>>
  /\ layout_calls = 0
  /\ memo_full = FALSE
  /\ same_as_prev = FALSE
  /\ col_heights = <<>>
  /\ selected = {}
  /\ search_hits = 1..GalleryImages
  /\ grid_mode = FALSE
  /\ last_gallery = [op |-> "none", before |-> 0]
  /\ SingleIdle
  /\ LoadIdle

galleryRest ==
  <<cacheVars, pipeVars, zoomVars, shutdownVars, singleVars, loadVars,
    file_ratio,
    num_columns,
    canvas_width, aspect_cache, image_positions, scrollregion, layout_calls,
    memo_full, same_as_prev, col_heights>>

GalleryNext ==
  \/ \E mode \in {"all", "selected"} : UpdateView(mode) /\ UNCHANGED galleryRest
  \/ \E img \in 1..GalleryImages : TreeClick(img) /\ UNCHANGED galleryRest
  \/ \E hits \in SUBSET (1..GalleryImages) :
       SearchChange(hits) /\ UNCHANGED galleryRest
  \/ GridButton /\ UNCHANGED galleryRest
  \/ GridClick /\ UNCHANGED galleryRest

SpecGallery == GalleryInit /\ [][GalleryNext]_vars

(***************************************************************************)
(* part_001: grid view and single view (show_single_img, back_to_grid,     *)
(* on_escape, update_view, on_tree_click, on_tree_dbl, deselect_all,       *)
(* load_images, prev_img, next_img).  An image is a number 1..ModeImages,  *)
(* a folder holds the images 1..n, the search text is kept as the set of   *)
(* images whose name contains it.  The view is the record of               *)
(* current_index (counted from 1), single_view_mode, grid_mode, zoom_level *)
(* and the pan.                                                            *)
(***************************************************************************)
ModeView ==
  [index |-> current_index, single |-> single_view_mode, grid |-> grid_mode,
   zoom |-> zoom_level, pan |-> pan]

\* the view becomes v
SetModeView(v) ==
  /\ current_index' = v.index
  /\ single_view_mode' = v.single
  /\ grid_mode' = v.grid
  /\ zoom_level' = v.zoom
  /\ pan' = v.pan

\* show_single_img: nothing happens for an image the filtered list lacks
show_single_img(filt, img, v) ==
  IF img \in PathsOf(filt)
  THEN [index |-> CHOOSE i \in 1..Len(filt) : filt[i] = img,
        single |-> TRUE, grid |-> FALSE, zoom |-> ZoomReset, pan |-> <<0, 0>>]
  ELSE v

\* back_to_grid with the grid flag left alone
back_to_grid_single_only(v) ==
  [v EXCEPT !.single = FALSE, !.zoom = ZoomReset, !.pan = <<0, 0>>]

\* back_to_grid
back_to_grid(v) ==
  [v EXCEPT !.single = FALSE, !.grid = TRUE, !.zoom = ZoomReset,
            !.pan = <<0, 0>>]

\* update_view, the new self.filtered_images
update_filter(imgs, hits, sel, mode) ==
  SelectSeq(imgs, LAMBDA img : img \in hits /\ (mode # "selected" \/ img \in sel))

\* update_view, the view it leaves: a "selected" view of one image opens it
update_view(filt, mode, v) ==
  IF mode = "selected" /\ Len(filt) = 1
  THEN show_single_img(filt, filt[1], v)
  ELSE v

\* update_view is called with the catalog, search text, selection and mode
\* given; the column radio buttons it switches are not modelled, and
\* self.num_columns, which it can only set to 4, is 4 throughout
CallUpdateView(imgs, hits, sel, mode, v) ==
  /\ filtered_images' = update_filter(imgs, hits, sel, mode)
  /\ SetModeView(update_view(filtered_images', mode, v))

\* on_click in grid mode, handle_grid_click on the cell of image img
HandleGridClick(img) ==
  /\ grid_mode
  /\ img \in PathsOf(filtered_images)
  /\ SetModeView(show_single_img(filtered_images, img, ModeView))
  /\ last_gallery' = [op |-> "click", before |-> 0]
  /\ UNCHANGED <<filtered_images, view_mode, selected, search_hits,
                 image_folder, self_images>>

\* on_tree_dbl on row idx of the list
TreeDouble(idx) ==
  /\ idx \in 1..Len(filtered_images)
  /\ SetModeView(show_single_img(filtered_images, filtered_images[idx],
                                 ModeView))
  /\ last_gallery' = [op |-> "double", before |-> 0]
  /\ UNCHANGED <<filtered_images, view_mode, selected, search_hits,
                 image_folder, self_images>>

\* on_escape (fullscreen is not modelled)
OnEscape ==
  /\ single_view_mode
  /\ IF view_mode = "selected" /\ Len(filtered_images) = 1
     THEN /\ view_mode' = "all"
          /\ CallUpdateView(self_images, search_hits, selected, "all",
                            ModeView)
     ELSE /\ SetModeView(back_to_grid(ModeView))
          /\ UNCHANGED <<view_mode, filtered_images>>
  /\ last_gallery' = [op |-> "escape", before |-> Len(filtered_images)]
  /\ UNCHANGED <<selected, search_hits, image_folder, self_images>>

\* a view-mode radio button: the variable is set, then update_view
ViewModeChange(mode) ==
  /\ view_mode' = mode
  /\ CallUpdateView(self_images, search_hits, selected, mode, ModeView)
  /\ last_gallery' = [op |-> "mode", before |-> Len(filtered_images)]
  /\ UNCHANGED <<selected, search_hits, image_folder, self_images>>

\* on_tree_click on the selection column of row idx: toggle, update_view
TreeToggle(idx) ==
  /\ idx \in 1..Len(filtered_images)
  /\ LET img == filtered_images[idx] IN
       selected' = IF img \in selected THEN selected \ {img}
                   ELSE selected \cup {img}
  /\ CallUpdateView(self_images, search_hits, selected', view_mode, ModeView)
  /\ last_gallery' = [op |-> "toggle", before |-> Len(filtered_images)]
  /\ UNCHANGED <<view_mode, search_hits, image_folder, self_images>>

\* the trace on search_var: the text now matches the images in hits
SearchTrace(hits) ==
  /\ hits # search_hits
  /\ search_hits' = hits
  /\ CallUpdateView(self_images, hits, selected, view_mode, ModeView)
  /\ last_gallery' = [op |-> "search", before |-> Len(filtered_images)]
  /\ UNCHANGED <<view_mode, selected, image_folder, self_images>>

\* deselect_all
DeselectAll ==
  /\ selected' = {}
  /\ view_mode' = "all"
  /\ CallUpdateView(self_images, search_hits, {}, "all", ModeView)
  /\ last_gallery' = [op |-> "deselect", before |-> Len(filtered_images)]
  /\ UNCHANGED <<search_hits, image_folder, self_images>>

\* select_folder and load_images: the folder of n images is scanned, every
\* entry unselected, then update_view
LoadFolder(n) ==
  /\ image_folder' = n
  /\ self_images' = [i \in 1..n |-> i]
  /\ selected' = {}
  /\ CallUpdateView(self_images', search_hits, {}, view_mode, ModeView)
  /\ last_gallery' = [op |-> "load", before |-> Len(filtered_images)]
  /\ UNCHANGED <<view_mode, search_hits>>

\* prev_img, from the Left key or the button, both of single view only
PrevImg ==
  /\ single_view_mode
  /\ filtered_images # <<>>
  /\ current_index > 1
  /\ SetModeView([ModeView EXCEPT !.index = current_index - 1,
                                  !.zoom = ZoomReset, !.pan = <<0, 0>>])
  /\ last_gallery' = [op |-> "prev", before |-> 0]
  /\ UNCHANGED <<filtered_images, view_mode, selected, search_hits,
                 image_folder, self_images>>

\* next_img
NextImg ==
  /\ single_view_mode
  /\ filtered_images # <<>>
  /\ current_index < Len(filtered_images)
  /\ SetModeView([ModeView EXCEPT !.index = current_index + 1,
                                  !.zoom = ZoomReset, !.pan = <<0, 0>>])
  /\ last_gallery' = [op |-> "next", before |-> 0]
  /\ UNCHANGED <<filtered_images, view_mode, selected, search_hits,
                 image_folder, self_images>>

\* ImageGallery.__init__ of part_001: no folder, the grid shown, the search
\* box empty (every name contains the empty text)
ModesInit ==
  /\ CacheIdle
  /\ LayoutIdle
  /\ PipelineIdle
  /\ variant = "part_001"
  /\ zoom_level = ZoomReset
  /\ pan = <<0, 0>>
  /\ single_view_mode = FALSE
  /\ last_zoom = [op |-> "none", pan |-> <<0, 0>>]
  /\ PreloadIdle
  /\ selected = {}
  /\ search_hits = 1..ModeImages
  /\ grid_mode = TRUE
  /\ last_gallery = [op |-> "none", before |-> 0]
  /\ SingleIdle
  /\ LoadIdle

modesRest ==
  <<cacheVars, pipeVars, shutdownVars, file_ratio, num_columns, canvas_width,
    aspect_cache, image_positions, scrollregion, layout_calls, memo_full,
    same_as_prev, col_heights, variant, last_zoom, canvas_size, after_queue,
    after_ids, canvas, photos, last_size, burst, hq, stop_loading, loaders,
    tk_load, after_load, finished>>

ModesNext ==
  \/ \E img \in 1..ModeImages : HandleGridClick(img) /\ UNCHANGED modesRest
  \/ \E idx \in 1..ModeImages : TreeDouble(idx) /\ UNCHANGED modesRest
  \/ OnEscape /\ UNCHANGED modesRest
  \/ \E mode \in {"all", "selected"} :
       ViewModeChange(mode) /\ UNCHANGED modesRest
  \/ \E idx \in 1..ModeImages : TreeToggle(idx) /\ UNCHANGED modesRest
  \/ \E hits \in SUBSET (1..ModeImages) :
       SearchTrace(hits) /\ UNCHANGED modesRest
  \/ DeselectAll /\ UNCHANGED modesRest
  \/ \E n \in 1..ModeImages : LoadFolder(n) /\ UNCHANGED modesRest
  \/ PrevImg /\ UNCHANGED modesRest
  \/ NextImg /\ UNCHANGED modesRest

SpecModes == ModesInit /\ [][ModesNext]_vars

(***************************************************************************)
(* Gallery.pyw: folder loading (select_folder, load_images,                *)
(* _load_images_thread, _finish_loading).  Two folders, 1 and 2; a file    *)
(* name is a number, folder 1 holds the names 1 and 2, folder 2 the names  *)
(* 2 and 3.  A catalog entry is [dir, name] for the path                   *)
(* os.path.join(dir, name).  The progress callbacks, which only write a    *)
(* label, are left out.                                                    *)
(***************************************************************************)
LoadFolders == {1, 2}

\* the supported image files of folder f
FolderFiles(f) == {f, f + 1}

\* os.listdir(f): the names, here in descending order
ListDir(f) == <<f + 1, f>>

\* natural_sort_key order of two entries
ByName(a, b) == a.name <= b.name

\* the catalog a load of folder f alone leaves: its files, sorted by name
CatalogOf(f) == <<[dir |-> f, name |-> f], [dir |-> f, name |-> f + 1]>>

\* threading.Thread(target=self._load_images_thread).start()
NewLoader == [pc |-> "start", dir |-> 0, files |-> <<>>, i |-> 1, path |-> <<>>]

\* Thread.is_alive
IsAlive(t) == loaders[t].pc # "exited"

\* the thread is inside a file-system call (os.listdir, os.path.getmtime)
\* that may take longer than join(timeout=1) waits
InSystemCall(t) == loaders[t].pc \in {"listing", "stat"}

\* load_images from stop_loading = False on: a new thread is started
StartLoader ==
  /\ stop_loading' = FALSE
  /\ loaders' = Append(loaders, NewLoader)
  /\ finished' = Append(finished, 0)
  /\ tk_load' = "idle"

\* select_folder picks folder f: load_images sets stop_loading and, with a
\* live loading thread, enters join(timeout=1)
SelectFolder(f) ==
  /\ tk_load = "idle"
  /\ Len(loaders) < MaxLoads
  /\ image_folder' = f
  /\ IF loaders # <<>> /\ IsAlive(Len(loaders))
     THEN /\ stop_loading' = TRUE
          /\ tk_load' = "join"
          /\ UNCHANGED <<loaders, finished>>
     ELSE StartLoader
  /\ UNCHANGED <<self_images, after_load>>

\* join returns because the thread ended
JoinEnds ==
  /\ tk_load = "join"
  /\ ~IsAlive(Len(loaders))
  /\ StartLoader
  /\ UNCHANGED <<image_folder, self_images, after_load>>

\* join returns after its second while the thread is still in a system call
JoinTimeout ==
  /\ tk_load = "join"
  /\ InSystemCall(Len(loaders))
  /\ StartLoader
  /\ UNCHANGED <<image_folder, self_images, after_load>>

\* _load_images_thread: self.images = []
LoaderStart(t) ==
  /\ loaders[t].pc = "start"
  /\ self_images' = <<>>
  /\ loaders' = [loaders EXCEPT ![t].pc = "list"]
  /\ UNCHANGED <<image_folder, stop_loading, tk_load, after_load, finished>>

\* os.listdir(self.image_folder) is called
LoaderList(t) ==
  /\ loaders[t].pc = "list"
  /\ loaders' = [loaders EXCEPT ![t].pc = "listing", ![t].dir = image_folder]
  /\ UNCHANGED <<image_folder, self_images, stop_loading, tk_load, after_load,
                 finished>>

\* os.listdir returns
LoaderListed(t) ==
  /\ loaders[t].pc = "listing"
  /\ loaders' = [loaders EXCEPT ![t].pc = "loop",
                                ![t].files = ListDir(loaders[t].dir)]
  /\ UNCHANGED <<image_folder, self_images, stop_loading, tk_load, after_load,
                 finished>>

\* the head of the for loop: the end of the listing, the stop_loading test,
\* file_path = os.path.join(self.image_folder, file), getmtime is called
LoaderLoop(t) ==
  /\ loaders[t].pc = "loop"
  /\ loaders' =
       IF loaders[t].i > Len(loaders[t].files)
       THEN [loaders EXCEPT ![t].pc = "sort"]
       ELSE IF stop_loading
       THEN [loaders EXCEPT ![t].pc = "exited"]
       ELSE [loaders EXCEPT
               ![t].pc = "stat",
               ![t].path = [dir |-> image_folder,
                            name |-> loaders[t].files[loaders[t].i]]]
  /\ UNCHANGED <<image_folder, self_images, stop_loading, tk_load, after_load,
                 finished>>

\* os.path.getmtime returns: OSError for a path that does not exist ends
\* the thread in its except clause, else the entry is appended to self.images
LoaderStat(t) ==
  /\ loaders[t].pc = "stat"
  /\ IF loaders[t].path.name \in FolderFiles(loaders[t].path.dir)
     THEN /\ self_images' = Append(self_images, loaders[t].path)
          /\ loaders' = [loaders EXCEPT ![t].pc = "loop",
                                        ![t].i = loaders[t].i + 1]
     ELSE /\ loaders' = [loaders EXCEPT ![t].pc = "exited"]
          /\ UNCHANGED self_images
  /\ UNCHANGED <<image_folder, stop_loading, tk_load, after_load, finished>>

\* after the loop: self.images.sort, root.after(0, self._finish_loading)
LoaderSort(t) ==
  /\ loaders[t].pc = "sort"
  /\ self_images' = SortSeq(self_images, ByName)
  /\ after_load' = Append(after_load, t)
  /\ loaders' = [loaders EXCEPT ![t].pc = "exited"]
  /\ UNCHANGED <<image_folder, stop_loading, tk_load, finished>>

\* the Tk loop runs a queued _finish_loading: update_view with the view
\* mode "all" and an empty search box shows a copy of self.images
FinishLoading ==
  /\ tk_load = "idle"
  /\ after_load # <<>>
  /\ after_load' = Tail(after_load)
  /\ finished' = [finished EXCEPT ![Head(after_load)] = @ + 1]
  /\ current_index' = 1
  /\ zoom_level' = ZoomReset
  /\ pan' = <<0, 0>>
  /\ grid_mode' = FALSE
  /\ filtered_images' = self_images
  /\ UNCHANGED <<image_folder, self_images, stop_loading, loaders, tk_load>>

\* Gallery.pyw after __init__: no folder chosen
LoadInit ==
  /\ CacheIdle
  /\ LayoutIdle
  /\ PipelineIdle
  /\ variant = "Gallery.pyw"
  /\ zoom_level = ZoomReset
  /\ pan = <<0, 0>>
  /\ single_view_mode = TRUE
  /\ last_zoom = [op |-> "none", pan |-> <<0, 0>>]
  /\ PreloadIdle
  /\ GalleryIdle
  /\ SingleIdle
  /\ LoadIdle

loadRest ==
  <<cacheVars, pipeVars, shutdownVars, file_ratio, view_mode, num_columns,
    canvas_width, aspect_cache, image_positions, scrollregion, layout_calls,
    memo_full, same_as_prev, col_heights, variant, single_view_mode,
    last_zoom, selected, search_hits, last_gallery, canvas_size, after_queue,
    after_ids, canvas, photos, last_size, burst, hq>>

viewRest == <<current_index, zoom_level, pan, grid_mode, filtered_images>>

LoadNext ==
  \/ \E f \in LoadFolders : SelectFolder(f) /\ UNCHANGED <<loadRest, viewRest>>
  \/ JoinEnds /\ UNCHANGED <<loadRest, viewRest>>
  \/ JoinTimeout /\ UNCHANGED <<loadRest, viewRest>>
  \/ \E t \in DOMAIN loaders : LoaderStart(t) /\ UNCHANGED <<loadRest, viewRest>>
  \/ \E t \in DOMAIN loaders : LoaderList(t) /\ UNCHANGED <<loadRest, viewRest>>
  \/ \E t \in DOMAIN loaders :
       LoaderListed(t) /\ UNCHANGED <<loadRest, viewRest>>
  \/ \E t \in DOMAIN loaders : LoaderLoop(t) /\ UNCHANGED <<loadRest, viewRest>>
  \/ \E t \in DOMAIN loaders : LoaderStat(t) /\ UNCHANGED <<loadRest, viewRest>>
  \/ \E t \in DOMAIN loaders : LoaderSort(t) /\ UNCHANGED <<loadRest, viewRest>>
  \/ FinishLoading /\ UNCHANGED loadRest

SpecLoad == LoadInit /\ [][LoadNext]_vars

\* every loading thread has ended and no callback is pending
LoadQuiet ==
  /\ loaders # <<>>
  /\ tk_load = "idle"
  /\ after_load = <<>>
  /\ \A t \in DOMAIN loaders : ~IsAlive(t)

(***************************************************************************)
(* Claims about FastImageCache: C1, C5, C7 under SpecCache, C2, C3, C4, C6 *)
(* under SpecCacheLRU.                                                     *)
(***************************************************************************)

\* C1: the number of stored entries never exceeds the configured maximum,
\* after any interleaving of get and put calls.
C1_SizeBounded == Len(cache) <= max_size

\* C1 witness: a put on a full cache has evicted an entry.
C1_Witness == Len(cache) = max_size /\ lastOp.op = "put" /\ lastOp.evicted

\* C2: once max_size + 1 distinct keys have been inserted (gets interleaved
\* freely), exactly the key that was least recently accessed at the last
\* insert is missing and the other max_size keys are stored.
C2_EvictsOnlyLRU ==
  (distinctPuts /\ Cardinality(putKeys) = max_size + 1)
    => /\ lastEvict.lru # {}
       /\ CacheKeys(cache) = putKeys \ lastEvict.lru
       /\ Cardinality(CacheKeys(cache)) = max_size

\* C2 witness: max_size + 1 distinct inserts, and a get before the last of
\* them made the evicted key differ from the first key inserted.
C2_Witness ==
  /\ distinctPuts
  /\ Cardinality(putKeys) = max_size + 1
  /\ max_size = 2
  /\ lastEvict.key = {2}
  /\ 1 \in CacheKeys(cache)

\* C3: a key K that was hit by get is evicted only after every other entry
\* stored at the time of the hit has been evicted or accessed again.
C3_PromotedOutlivesOthers ==
  \A k \in Keys : k \notin CacheKeys(cache) => pending[k] = {}

\* C3 witness: a key that a get hit while other entries were stored has
\* since been evicted.
C3_Witness ==
  /\ lastEvict.key # {}
  /\ lastEvict.promoted
  /\ lastEvict.key \cap CacheKeys(cache) = {}

\* C4 as stated: after a get that hits K, inserting max_size more keys never
\* stored before leaves K stored.
C4_Original ==
  (hitRun.key # {} /\ hitRun.n = max_size)
    => hitRun.key \subseteq CacheKeys(cache)

\* C4 amended: after a get that hits K, inserting up to max_size - 1 more keys
\* never stored before, with no other call in between, leaves K stored.
C4_HitSurvivesInserts ==
  (hitRun.key # {} /\ hitRun.n <= max_size - 1)
    => hitRun.key \subseteq CacheKeys(cache)

\* C4 witness: max_size - 1 >= 1 inserts after the hit filled the cache and
\* evicted an older entry; the hit key is still stored.
C4_Witness ==
  /\ hitRun.key # {}
  /\ hitRun.n = max_size - 1
  /\ hitRun.n >= 1
  /\ lastEvict.key # {}
  /\ hitRun.key \subseteq CacheKeys(cache)

\* C5: put on a key that is already stored leaves the number of entries, the
\* set of stored keys and every other entry unchanged; only the value bound to
\* that key changes.
C5_OverwriteKeepsKeys ==
  [][(lastOp'.op = "put" /\ lastOp'.key \in CacheKeys(cache))
       => /\ Len(cache') = Len(cache)
          /\ CacheKeys(cache') = CacheKeys(cache)
          /\ \A k \in CacheKeys(cache) \ {lastOp'.key} :
               ValueOf(cache', k) = ValueOf(cache, k)
          /\ ValueOf(cache', lastOp'.key) = lastOp'.val]_vars

\* C5 witness: a put has overwritten the value of a stored key in a full cache.
C5_Witness ==
  /\ lastOp.op = "put"
  /\ lastOp.present
  /\ lastOp.stored # lastOp.val
  /\ Len(cache) = max_size
  /\ ValueOf(cache, lastOp.key) = lastOp.val

\* C6: whenever a put evicts an entry, the evicted entry is the least recently
\* accessed one, an access being a get that hits or a put (insert or
\* overwrite).
C6_EvictsLeastRecentlyAccessed == lastEvict.key = lastEvict.lru

\* C7 as stated: get on a stored key never returns the absent signal None,
\* whatever value is stored.
C7_Original ==
  (lastOp.op = "get" /\ lastOp.present) => lastOp.result # None

\* C7 amended: get on a key that is not stored returns None; get on a stored
\* key returns the stored value, so it differs from the absent signal exactly
\* when the stored value is not None (the callers test truthiness).
C7_AbsentIsNone ==
  lastOp.op = "get" =>
    /\ ~lastOp.present => lastOp.result = None
    /\ lastOp.present => lastOp.result = lastOp.stored
    /\ Truthy(lastOp.result) <=> (lastOp.present /\ Truthy(lastOp.stored))

\* C7 witness: a get has hit a key whose stored value is an image.
C7_Witness ==
  lastOp.op = "get" /\ lastOp.present /\ Truthy(lastOp.stored)

(***************************************************************************)
(* Claims about calculate_layout, checked under SpecLayout.                *)
(***************************************************************************)

\* C9: in the position map, two distinct images placed in the same column
\* (same x) have vertical spans [y, y + h] that do not overlap.
C9_NoOverlapInColumn ==
  \A i, j \in 1..Len(image_positions) :
    (i # j /\ image_positions[i].x = image_positions[j].x)
      => \/ image_positions[i].y + image_positions[i].h < image_positions[j].y
         \/ image_positions[j].y + image_positions[j].h < image_positions[i].y

\* C9 witness: a layout that has stacked two images in one column.
C9_Witness ==
  \E i, j \in 1..Len(image_positions) :
    /\ i # j
    /\ image_positions[i].x = image_positions[j].x
    /\ image_positions[i].h > 0
    /\ image_positions[j].h > 0

ImageH == IF image_positions = <<>> THEN 0 ELSE image_positions[1].h

\* calculate_layout has run on a mapped canvas and every image it placed has
\* the same height (one aspect ratio, one column width)
UniformLayout ==
  /\ col_heights # <<>>
  /\ \A i \in 1..Len(image_positions) : image_positions[i].h = ImageH

\* C11 as stated: with one aspect ratio the final column heights differ
\* pairwise by at most one image height, and the total height is the highest
\* column plus one gap.
C11_Original ==
  UniformLayout =>
    /\ \A c, d \in 1..Len(col_heights) :
         col_heights[c] - col_heights[d] <= ImageH
    /\ scrollregion[4] = MaxHeight(col_heights) + Gap

\* C11 amended: with one aspect ratio the final column heights differ
\* pairwise by at most one image height plus one gap, and the total height
\* is the highest column plus one gap.
C11_HeightsWithinOneRow ==
  UniformLayout =>
    /\ \A c, d \in 1..Len(col_heights) :
         col_heights[c] - col_heights[d] <= ImageH + Gap
    /\ scrollregion[4] = MaxHeight(col_heights) + Gap

\* C11 witness: a uniform layout with more images than columns whose columns
\* ended at different heights.
C11_Witness ==
  /\ UniformLayout
  /\ Len(image_positions) > Len(col_heights)
  /\ \E c, d \in 1..Len(col_heights) :
       col_heights[c] - col_heights[d] = ImageH + Gap

\* scenario A: twelve images of aspect ratio 1.0 (height = width) laid out
\* in four columns
ScenarioA ==
  /\ col_heights # <<>>
  /\ Len(image_positions) = 12
  /\ Len(col_heights) = 4
  /\ \A i \in 1..12 : image_positions[i].h = image_positions[i].w

\* C12: twelve images of aspect ratio 1.0 in 4 columns with gap 4 are placed
\* three to a column, and every column ends at 3 * column_width + 4 * gap.
C12_ThreeRows ==
  ScenarioA =>
    \A c \in 1..4 :
      /\ Cardinality({i \in 1..12 :
            image_positions[i].x
              = Gap + (c - 1) * (image_positions[1].w + Gap)}) = 3
      /\ col_heights[c] = 3 * image_positions[1].w + 4 * Gap

\* C12 witness: scenario A was laid out with a column width above the minimum.
C12_Witness ==
  /\ ScenarioA
  /\ image_positions[1].w > MinColWidth
  /\ scrollregion[4] = 3 * image_positions[1].w + 5 * Gap

\* C13: in "selected" view mode, a list of exactly 2 (3) images is laid out
\* in 2 (3) columns whatever the configured column count; every other count
\* uses the configured column count.
C13_SelectedForcesColumns ==
  col_heights # <<>> =>
    Len(col_heights) =
      IF view_mode = "selected" /\ Len(filtered_images) \in {2, 3}
        THEN Len(filtered_images)
        ELSE num_columns

\* C13 witness: two selected images were laid out in two columns while five
\* columns are configured.
C13_Witness ==
  /\ view_mode = "selected"
  /\ Len(filtered_images) = 2
  /\ num_columns = 5
  /\ Len(col_heights) = 2
  /\ Len(image_positions) = 2

(***************************************************************************)
(* Claims about the single-image viewer, checked under SpecZoom.           *)
(***************************************************************************)
\* C15: after any sequence of zoom-in, zoom-out, drag and navigation the zoom
\* level lies in 0.25..5.0 (part_001) or 0.1..5.0 (Gallery.pyw), and right
\* after a zoom-out that leaves the level <= 1.0 the pan offset is (0, 0).
C15_ZoomClampedPanReset ==
  /\ variant = "part_001" => zoom_level \in 25..500
  /\ variant = "Gallery.pyw" => zoom_level \in 10..500
  /\ (last_zoom.op = "out" /\ zoom_level <= 100) => pan = <<0, 0>>

\* C15 witness: a zoom-out from a panned view brought the level down to 1.0
\* and the pan to the origin, in Gallery.pyw.
C15_Witness ==
  /\ variant = "Gallery.pyw"
  /\ last_zoom.op = "out"
  /\ last_zoom.pan # <<0, 0>>
  /\ zoom_level = 100
  /\ pan = <<0, 0>>

(***************************************************************************)
(* Claims about the thumbnail pipeline, checked under SpecPipeline.        *)
(***************************************************************************)
\* the tasks for key that wait in the queue or are in a worker's hands
Outstanding(key) ==
  Cardinality({i \in 1..Len(thumb_queue) :
                 /\ thumb_queue[i] # NoTask
                 /\ ThumbKey(thumb_queue[i].path, thumb_queue[i].width) = key})
  + Cardinality({w \in 1..NumWorkers :
                   /\ workers[w].pc \in {"check", "decode"}
                   /\ ThumbKey(workers[w].task.path, workers[w].task.width)
                        = key})

\* the span of pos lies entirely outside the window of the last pass
OutsideWindow(pos) ==
  \/ (pos.y + pos.h) * ScrollDen < pass_window.top
  \/ pos.y * ScrollDen > pass_window.bottom

\* what the last pass drew for path
ItemsOf(path) ==
  {canvas_items[i] : i \in {j \in 1..Len(canvas_items) :
                                canvas_items[j].path = path}}

\* C14: in every grid render pass, an item whose span [y, y + h] lies entirely
\* outside the window [visible_top, visible_bottom] of that pass is neither
\* drawn (bitmap or placeholder) nor enqueued.
C14_CulledNotDrawn ==
  pass_window.ran =>
    \A i \in 1..Len(image_positions) :
      OutsideWindow(image_positions[i])
        => ItemsOf(image_positions[i].path) = {}

\* C14 witness: a pass skipped an item outside its window and drew another.
C14_Witness ==
  /\ pass_window.ran
  /\ canvas_items # <<>>
  /\ \E i \in 1..Len(image_positions) :
       /\ OutsideWindow(image_positions[i])
       /\ ItemsOf(image_positions[i].path) = {}

\* C16: an image X whose every decode fails is never in the thumbnail cache,
\* and every grid render pass that does not cull X draws a placeholder for X
\* and calls queue_thumbnail for X again.
C16_FailedStaysPlaceholder ==
  /\ \A e \in 1..Len(thumb_cache) : thumb_cache[e].key[1] \notin corrupt
  /\ \A i \in 1..Len(image_positions) :
       (/\ image_positions[i].path \in corrupt
        /\ pass_window.ran
        /\ ~OutsideWindow(image_positions[i]))
         => /\ ItemsOf(image_positions[i].path) # {}
            /\ \A item \in ItemsOf(image_positions[i].path) :
                 item.kind = "placeholder" /\ item.enqueue

\* C16 witness: a worker's decode of X raised, and a later pass drew X's
\* placeholder and enqueued X again.
C16_Witness ==
  \E i \in 1..Len(image_positions) :
    /\ image_positions[i].path \in pass_window.failed
    /\ ~OutsideWindow(image_positions[i])
    /\ \E item \in ItemsOf(image_positions[i].path) : item.enqueue
    /\ \E q \in 1..Len(thumb_queue) :
         /\ thumb_queue[q] # NoTask
         /\ thumb_queue[q].path = image_positions[i].path

\* C8: for each thumbnail cache key (path, width), at most one generation
\* task for that key is outstanding (waiting in the task queue or being
\* processed by a worker) at any time.
C8_OneTaskPerKey ==
  \A i \in 1..Len(image_positions) :
    Outstanding(ThumbKey(image_positions[i].path, image_positions[i].w)) <= 1

(***************************************************************************)
(* Claims about shutdown, checked under SpecShutdown and SpecShutdownLive. *)
(***************************************************************************)
\* C17: once on_close has signaled stop, no put occurs on the thumbnail
\* cache or on the full-image cache, whatever thumbnail workers, the drain
\* tick and preload threads in flight do.
C17_NoPutAfterStop == late_puts = {}

\* C18: after on_close signals stop, every thumbnail worker thread eventually
\* exits its loop, also when the full task queue left no room for sentinels.
C18_WorkersExit ==
  stop_workers ~> (\A w \in 1..NumWorkers : workers[w].pc = "exited")

\* C18 witness: on_close found the queue full, no sentinel was enqueued, and
\* every worker has exited.
C18_Witness ==
  /\ stop_workers
  /\ sentinels_dropped = Sentinels
  /\ \A w \in 1..NumWorkers : workers[w].pc = "exited"

(***************************************************************************)
(* Claims about the task and result records (SpecPipeline) and about the   *)
(* view modes of Gallery.pyw (SpecGallery).                                *)
(***************************************************************************)
\* C19: every task on the task queue and every result on the result channel
\* carries the epoch that was current when the task was issued.
C19_TasksCarryEpoch ==
  /\ \A i \in 1..Len(thumb_queue) :
       thumb_queue[i] # NoTask => "epoch" \in DOMAIN thumb_queue[i]
  /\ \A i \in 1..Len(result_queue) : "epoch" \in DOMAIN result_queue[i]

\* C20: in Gallery.pyw, in "selected" view mode, when switching the view
\* mode, toggling a selection in the list or changing the search text raises
\* the number of selected images shown from fewer than two to two or more,
\* grid mode is enabled.
C20_GridAutoEnabled ==
  (/\ view_mode = "selected"
   /\ last_gallery.op \in {"mode", "click", "search"}
   /\ last_gallery.before < 2
   /\ Len(filtered_images) >= 2)
    => grid_mode

(***************************************************************************)
(* Claims about enqueueing, workers, the drain and the render window        *)
(* (SpecPipeline).                                                          *)
(***************************************************************************)
\* the tasks update_visible_thumbs can hand to queue_thumbnail
PassTasks ==
  {Task(image_positions[i].path, image_positions[i].w, pr) :
     i \in 1..Len(image_positions), pr \in {5, 10}}

\* C21: queue_thumbnail never blocks: on a full task queue the call returns
\* with the queue unchanged and the task dropped, and the queue never holds
\* more than its maximum.
C21_FullQueueDrops ==
  /\ Len(thumb_queue) <= QueueMax
  /\ \A task \in PassTasks :
       /\ Len(QueueThumbnail(thumb_queue, task)) <= QueueMax
       /\ Len(thumb_queue) = QueueMax
            => QueueThumbnail(thumb_queue, task) = thumb_queue
       /\ Len(thumb_queue) < QueueMax
            => QueueThumbnail(thumb_queue, task) = Append(thumb_queue, task)

\* a pass called queue_thumbnail on a full queue and the queue is still full
C21_Witness ==
  /\ pass_window.dropped > 0
  /\ Len(thumb_queue) = QueueMax
  /\ ~stop_workers

\* the results that a step appends to the result channel
Published == SubSeq(result_queue', Len(result_queue) + 1, Len(result_queue'))

\* C22: for every task a worker dequeues, the worker publishes no Result when
\* the task's key is in the thumbnail cache at its check or when the decode
\* fails, and otherwise exactly one Result, for that key.
C22_OneResultPerDecodedTask ==
  [][\A w \in 1..NumWorkers :
       LET task == workers[w].task
           key  == ThumbKey(task.path, task.width)
       IN
       /\ (workers[w].pc = "check" /\ workers'[w].pc # "check")
            => /\ result_queue' = result_queue
               /\ IF Truthy(GetResult(thumb_cache, key))
                    THEN workers'[w] = [pc |-> "loop", task |-> NoTask]
                    ELSE workers'[w] = [pc |-> "decode", task |-> task]
       /\ (workers[w].pc = "decode" /\ workers'[w].pc # "decode")
            => /\ workers'[w] = [pc |-> "loop", task |-> NoTask]
               /\ Len(result_queue') >= Len(result_queue)
               /\ SubSeq(result_queue', 1, Len(result_queue)) = result_queue
               /\ IF task.path \in corrupt
                    THEN Published = <<>>
                    ELSE Len(Published) = 1 /\ Published[1].key = key
       /\ (workers[w].pc \in {"loop", "waiting"} /\ workers'[w] # workers[w])
            => result_queue' = result_queue
    ]_vars

\* a dequeued task whose key is cached is at its check, a decode has failed
\* and a result of a good decode is on the channel
C22_Witness ==
  /\ \E w \in 1..NumWorkers :
       /\ workers[w].pc = "check"
       /\ Truthy(GetResult(thumb_cache,
                           ThumbKey(workers[w].task.path,
                                    workers[w].task.width)))
  /\ failed # {}
  /\ result_queue # <<>>

(***************************************************************************)
(* Claims about the single view and its timers (SpecSingle,                *)
(* SpecSingleLive).                                                        *)
(***************************************************************************)
\* the bitmap the canvas shows, as (width, height, path); <<>> when the
\* canvas shows anything but one resampled image
Displayed ==
  IF Len(canvas) = 1 /\ canvas[1].kind = "bitmap"
    THEN <<canvas[1].w, canvas[1].h, canvas[1].path>>
    ELSE <<>>

\* C28: render_high_quality resamples and replaces the displayed bitmap
\* exactly when the target (width, height, path) differs from the last-size
\* marker or no bitmap is held; when they are equal it only repositions the
\* existing bitmap; after the call the marker equals the (width, height,
\* path) of the bitmap displayed.
C28_ResampleOnlyOnChange ==
  hq.ran =>
    /\ hq.resampled <=> (hq.target # hq.marker \/ ~hq.held)
    /\ hq.resampled => canvas = <<Bitmap(hq.target, pan)>>
    /\ ~hq.resampled =>
         /\ Len(canvas) = Len(hq.before)
         /\ \A i \in 1..Len(canvas) :
              [canvas[i] EXCEPT !.at = hq.before[i].at] = hq.before[i]
    /\ last_size = hq.target
    /\ last_size = Displayed

\* some item of the canvas is an image
HasImage(items) == \E i \in 1..Len(items) : IsImageItem(items[i])

\* C29: in a high-fidelity resample the new bitmap item is created before
\* any old item is removed: the canvas, when it held an image item before the
\* swap, holds one after every step of it.
C29_NewBeforeOld ==
  (hq.ran /\ hq.resampled) =>
    /\ hq.steps[1] = hq.before \o <<Bitmap(hq.target, pan)>>
    /\ HasImage(hq.before) =>
         \A k \in 1..Len(hq.steps) : HasImage(hq.steps[k])

\* a resample has replaced a displayed bitmap
C29_Witness ==
  /\ hq.ran
  /\ hq.resampled
  /\ single_view_mode
  /\ HasImage(hq.before)
  /\ Len(hq.steps) >= 2
  /\ canvas = <<Bitmap(hq.target, pan)>>

\* the timers of fn that are pending
Pending(fn) == {t \in after_queue : t.fn = fn}

\* C23: each schedule_render call cancels the pending debounced render and
\* schedules a new one: at most one is pending at any time, and a burst of
\* calls is followed by exactly one render, after the last call.
C23_OneRenderPerBurst ==
  /\ [](/\ Cardinality(Pending("render")) <= 1
        /\ (burst.render > 0) <=> (Pending("render") # {})
        /\ \A t \in Pending("render") : t.id = after_ids.scroll_id)
  /\ ((burst.render > 0) ~> (burst.render = 0))

\* two calls came without a render between them and one render is pending
C23_Witness ==
  /\ burst.render = BurstCap
  /\ Cardinality(Pending("render")) = 1

\* C30: every instant-tier update (drag sample, zoom step) cancels the
\* pending high-fidelity timer and starts a new one: at most one
\* high-fidelity render is pending at any time, and a burst of updates is
\* followed by exactly one high-fidelity render, after the last update.
C30_OneHighQualityPerBurst ==
  /\ [](/\ Cardinality(Pending("render_high_quality")) <= 1
        /\ (burst.render_high_quality > 0)
             <=> (Pending("render_high_quality") # {})
        /\ \A t \in Pending("render_high_quality") :
             t.id = after_ids.zoom_pan_timer)
  /\ ((burst.render_high_quality > 0) ~> (burst.render_high_quality = 0))

\* two updates came without a high-fidelity render between them and one
\* high-fidelity render is pending
C30_Witness ==
  /\ burst.render_high_quality = BurstCap
  /\ Cardinality(Pending("render_high_quality")) = 1
  /\ single_view_mode

(***************************************************************************)
(* Claims about check_results (SpecDrain), the render window and the task  *)
(* priority (SpecPipeline) and get_aspect_ratio_fast (SpecLayout).         *)
(***************************************************************************)
\* C24: each check_results tick takes at most 10 results from the result
\* channel, from its head, puts each of them into the thumbnail cache, and
\* does not block on an empty channel.
C24_DrainBounded ==
  /\ [][LET taken == Len(result_queue) - Len(result_queue')
        IN  /\ taken \in 0..DrainLimit
            /\ result_queue' =
                 SubSeq(result_queue, taken + 1, Len(result_queue))
            /\ \A i \in 1..taken :
                 Truthy(GetResult(thumb_cache', result_queue[i].key))
     ]_vars
  /\ [](result_queue = <<>> => ENABLED DrainStep)

\* a tick found more than ten results, took ten and left the rest
C24_Witness ==
  /\ Len(result_queue) = DrainMax - DrainLimit
  /\ Len(result_queue) > 0
  /\ thumb_cache # <<>>

\* C25: in every grid render pass the culling window is
\* [scroll_top - overscan, scroll_top + viewport_height + overscan] with
\* scroll_top = scroll_fraction * total_height: the same margin above and
\* below the viewport.
C25_SymmetricOverscan ==
  pass_window.ran =>
    /\ pass_window.top = pass_window.scroll - Overscan * ScrollDen
    /\ pass_window.bottom =
         pass_window.scroll + (canvas_h + Overscan) * ScrollDen

\* the position of path in the position map
PositionOf(path) ==
  image_positions[CHOOSE i \in 1..Len(image_positions) :
                    image_positions[i].path = path]

\* part of the span y .. y + h lies in the viewport of the last pass,
\* [scroll_top, scroll_top + viewport_height]
InViewport(pos) ==
  /\ (pos.y + pos.h) * ScrollDen >= pass_window.scroll
  /\ pos.y * ScrollDen <= pass_window.scroll + canvas_h * ScrollDen

\* C26: for every item drawn without a cached thumbnail the enqueued task has
\* priority 10 exactly when part of the item's vertical span lies inside the
\* strict visible band [scroll_top, scroll_top + viewport_height], and
\* priority 5 when the item lies only in the overscan bands.
C26_PriorityByBand ==
  \A i \in 1..Len(canvas_items) :
    canvas_items[i].enqueue =>
      canvas_items[i].priority =
        IF InViewport(PositionOf(canvas_items[i].path)) THEN 10 ELSE 5

\* C27: get_aspect_ratio_fast returns 1.0 for an image that cannot be
\* decoded and leaves the memo map unchanged, so that the next call for the
\* path decodes again; the layout is completed, the image laid out square.
C27_FailureNotMemoized ==
  /\ \A p \in PathsOf(filtered_images) \ DOMAIN aspect_cache :
       /\ ResolveRatio(aspect_cache, p, {p}) = DefaultRatio
       /\ MemoAfter(aspect_cache, p, {p}) = aspect_cache
       /\ ResolveRatio(MemoAfter(aspect_cache, p, {p}), p, {}) = FileRatio(p)
  /\ (layout_calls > 0 /\ canvas_width > 1) =>
       /\ {image_positions[i].path : i \in 1..Len(image_positions)}
            = PathsOf(filtered_images)
       /\ \A i \in 1..Len(image_positions) :
            image_positions[i].path \notin DOMAIN aspect_cache
              => image_positions[i].h = image_positions[i].w

\* a layout ran while an image could not be opened: the image is laid out
\* square and is not memoized, another is memoized
C27_Witness ==
  /\ layout_calls > 0
  /\ canvas_width > 1
  /\ \E i, j \in 1..Len(image_positions) :
       /\ image_positions[i].path \notin DOMAIN aspect_cache
       /\ image_positions[i].h = image_positions[i].w
       /\ image_positions[j].path \in DOMAIN aspect_cache


(***************************************************************************)
(* Further claims about the single-image viewer, checked under SpecZoom.   *)
(***************************************************************************)
\* C31: after any sequence of zoom-in and zoom-out operations starting from
\* 1.0 the zoom level is a whole number of 0.25 steps, and each zoom operation
\* changes the level by exactly 0.25 unless a range limit stops it.
C31_WholeSteps ==
  /\ [](zoom_level % 25 = 0)
  /\ [][/\ last_zoom'.op = "in" =>
             zoom_level' = IF zoom_level + 25 <= 500
                             THEN zoom_level + 25 ELSE 500
        /\ last_zoom'.op = "out" =>
             \E low \in {10, 25} :
               zoom_level' = IF zoom_level - 25 >= low
                               THEN zoom_level - 25 ELSE low]_vars


\* C36: in the single-image view the pan offset is (0, 0) in every reachable
\* state with zoom level <= 1.0: the offset leaves its value for a value
\* other than the origin only in a drag at zoom > 1.0, and every step that
\* ends in the single view at zoom <= 1.0 ends with the offset at the origin.
C36_PanOnlyWhenZoomed ==
  /\ []((single_view_mode /\ zoom_level <= 100) => pan = <<0, 0>>)
  /\ [][(pan' # pan /\ pan' # <<0, 0>>)
          => /\ last_zoom'.op = "drag"
             /\ single_view_mode
             /\ zoom_level > 100
             /\ zoom_level' = zoom_level]_vars

\* C36 witness: a zoom-out in the single view of part_001 found the image
\* panned and left it at zoom 1.0 with the offset at the origin.
C36_Witness ==
  /\ variant = "part_001"
  /\ single_view_mode
  /\ last_zoom.op = "out"
  /\ last_zoom.pan = <<1, -1>>
  /\ zoom_level = 100
  /\ pan = <<0, 0>>

(***************************************************************************)
(* Claims about preloading, checked under SpecPreload.                     *)
(***************************************************************************)
\* C32: a _preload_single thread goes on to put its image into the
\* full-image cache only if the path was absent from that cache when the
\* thread checked (a thread that found it present ends without a put), and
\* the threads a step starts load in-range neighbours, at offsets -2, -1, +1,
\* +2, of the index that is current at that step.
C32_PreloadGuarded ==
  [][\A t \in DOMAIN preloads :
       /\ (preloads[t].pc = "check" /\ preloads'[t].pc = "open")
            => preloads[t].path \notin CacheKeys(img_cache)
       /\ (preloads[t].pc = "check" /\ preloads'[t].pc = "idle")
            => CacheKeys(img_cache') = CacheKeys(img_cache)
       /\ (preloads[t].pc # "open" /\ preloads'[t].pc = "open")
            => preloads[t].pc = "check"
       /\ (preloads[t].pc = "idle" /\ preloads'[t].pc = "check")
            => \E j \in 1..Len(filtered_images) :
                 /\ j - current_index' \in {-2, -1, 1, 2}
                 /\ preloads'[t].path = filtered_images[j]]_vars

\* C32 witness: image 2 is current, a thread that found its path absent is
\* about to put it although the Tk thread has cached that path since, and
\* another thread loads a neighbour of image 2.
C32_Witness ==
  /\ current_index = 2
  /\ \E t \in DOMAIN preloads :
       /\ preloads[t].pc = "open"
       /\ preloads[t].path \in CacheKeys(img_cache)
  /\ \E t \in DOMAIN preloads :
       /\ preloads[t].pc = "check"
       /\ preloads[t].path = 4


(***************************************************************************)
(* Further claims about the timers of the single view, checked under       *)
(* SpecSingle.                                                             *)
(***************************************************************************)
\* C33: a high-fidelity render scheduled during pan or zoom modifies the
\* canvas only while the single-image view is active: when its timer fires
\* after back_to_grid, the callback leaves the grid's canvas items as they
\* were and draws no single image over them.
C33_HighQualityOnlyInSingle ==
  (hq.ran /\ ~single_view_mode) => canvas = hq.before


(***************************************************************************)
(* Claims about the thumbnail pipeline at rest, checked under SpecSettle.   *)
(***************************************************************************)
\* every item the window of the current scroll position does not cull is
\* drawn from the thumbnail cache
AllDrawn ==
  \A i \in 1..Len(image_positions) :
    ~Culled(image_positions[i], yview, TotalHeight(scrollregion, canvas_h),
            canvas_h)
      => \E item \in ItemsOf(image_positions[i].path) : item.kind = "image"

\* C34: every decode succeeds and the non-culled items never outnumber the
\* thumbnail cache capacity; if the viewport stops changing (no scroll sets
\* scroll_id any more), then from some point on every non-culled item is
\* drawn from the thumbnail cache, also an item whose task was dropped on a
\* full queue.
C34_EventuallyDrawn == []<>scroll_id \/ <>[]AllDrawn


(***************************************************************************)
(* Claims about grid view and single view of part_001: C37, C38 under      *)
(* SpecModes.                                                              *)
(***************************************************************************)

\* C37: in every reachable state exactly one of grid_mode and
\* single_view_mode is true, after any sequence of grid clicks, list
\* double-clicks, Escape, view-mode changes, selection toggles, search
\* changes and folder loads.
C37_OneMode == grid_mode # single_view_mode

\* Escape has just brought the single view back to the grid
C37_Witness ==
  /\ last_gallery.op = "escape"
  /\ grid_mode
  /\ ~single_view_mode
  /\ Len(filtered_images) > 1

\* C38: whenever the single-image view is active and the filtered list is
\* non-empty, current_index is a valid index into it, after any sequence
\* of navigation, search-filter, selection-toggle, view-mode and
\* folder-load operations.
C38_IndexValid ==
  (single_view_mode /\ filtered_images # <<>>)
    => current_index \in 1..Len(filtered_images)


(***************************************************************************)
(* The claim about folder loading of Gallery.pyw: C35 under SpecLoad.      *)
(***************************************************************************)

\* C35: when load_images is called for a new folder while an earlier
\* loading thread is still running, the join timing out included, the
\* catalog self.images ends up holding exactly the supported image files
\* of the most recently selected folder, with no entry appended by the
\* earlier thread, and _finish_loading runs once for that load.
C35_LatestFolderOnly ==
  LoadQuiet => /\ self_images = CatalogOf(image_folder)
               /\ finished[Len(loaders)] = 1

====
